---- MODULE Spec2Model ----
(***************************************************************************)
(* The masking layer of LLVM_Util (src/liboslexec/llvm_util.cpp): the mask *)
(* stack, the per-function and per-loop mask contexts, the masked          *)
(* control-transfer operations and the masked store.                       *)
(*                                                                         *)
(* A wide bool (llvm::Value of type_wide_bool) is modelled by the set of   *)
(* lanes on which it is true.  An alloca holding a wide bool is modelled   *)
(* by its content: op_alloca returns fresh storage, so the entries of      *)
(* m_alloca_for_modified_mask_stack never alias.                           *)
(***************************************************************************)
EXTENDS Integers, Sequences, FiniteSets, TLC

\* ----------------------------------------------------------------- bounds
\* m_vector_width, the number of SIMD lanes
W == 2
\* the most entries the mask stack, the function mask contexts and the loop
\* contexts hold together
MaxDepth == 3
\* the deepest stack of function mask contexts of SpecExit
MaxFuncs == 3
\* the deepest nesting of scopes of SpecNested
MaxScopes == 2
\* the deepest nesting of scopes of SpecCalls
MaxNest == 3
\* the deepest stack of masking-enabled flags
MaxFlags == 2
\* the deepest stack of loop contexts of SpecLoop
MaxLoops == 2
\* the largest value a return or exit counter is driven to, and the most
\* breaks and continues the open loops count together
MaxCount == 1

Lanes == 1..W
Masks == SUBSET Lanes
\* the wide bools the caller passes in: none, all, the odd and the even lanes
Predicates == { {}, Lanes, {l \in Lanes : l % 2 = 1}, {l \in Lanes : l % 2 = 0} }

VARIABLES
    m_mask_stack,                       \* std::vector<MaskInfo>
    m_alloca_for_modified_mask_stack,   \* contents of the function mask allocas
    m_masked_return_count_stack,        \* std::vector<int>
    m_masked_loop_stack,                \* std::vector<LoopInfo>, with slot contents
    m_masked_exit_count,                \* int
    m_enable_masking_stack,             \* std::vector<bool>
    aborted,                            \* an ASSERT failed: the process is gone
    op,                                 \* the call that produced this state
    scopes,                             \* history: per mask entry, the call that
                                        \* pushed it
    returned_lanes,                     \* history: per mask entry, the lanes that
                                        \* took a masked return or exit since
                                        \* the entry was pushed
    memory,                             \* contents of a location of the generated
                                        \* program that op_store writes
    calls,                              \* history: per function mask context, how
                                        \* it was entered and the returns issued
                                        \* in it
    open,                               \* history: the conditional regions and
                                        \* the function scopes entered and not
                                        \* yet left
    issued,                             \* history: per loop context, the masked
                                        \* breaks and continues issued in it
    previous,                           \* history: the call before the last
    codec                               \* m_vector_width,
                                        \* m_supports_native_bit_masks, and the
                                        \* argument and the result of the last
                                        \* conversion or test of a wide bool

vars == << m_mask_stack, m_alloca_for_modified_mask_stack,
           m_masked_return_count_stack, m_masked_loop_stack,
           m_masked_exit_count, m_enable_masking_stack, aborted, op,
           scopes, returned_lanes, memory, calls, open, issued, previous,
           codec >>

\* ------------------------------------------------------------ wide values
\* builder().CreateSelect(c, a, b) on wide bools: lane-wise c ? a : b
Select(c, a, b) == (c \cap a) \cup (b \ c)

wide_constant_bool(b) == IF b THEN Lanes ELSE {}

Front(s) == SubSeq(s, 1, Len(s) - 1)
Back(s) == s[Len(s)]
\* an update through back() that lands on the first element instead
SetFront(s, v) == [s EXCEPT ![1] = v]
SetBack(s, v) == [s EXCEPT ![Len(s)] = v]
\* a pop that empties the vector
pop_back_clear(stack) == << >>

\* a pop_back that takes the entry below along
pop_back_twice(stack) == SubSeq(stack, 1, Len(stack) - 2)

\* m_mask_stack.pop_back()
pop_back(stack) == Front(stack)

MaskInfo(mask, negate, count) ==
    [mask |-> mask, negate |-> negate, applied_return_mask_count |-> count]

LoopInfo(cond, cont, bc, cc) ==
    [condition_mask |-> cond, continue_mask |-> cont,
     break_count |-> bc, continue_count |-> cc]

\* ------------------------------------------------------------- mask stack
\* a push_mask whose applied count is taken the other way round
push_applied_count_swapped(mi, absolute) ==
    IF absolute THEN mi.applied_return_mask_count ELSE 0

\* a push_mask whose entry always inherits the applied count of its parent
push_applied_count_inherited(mi, absolute) == mi.applied_return_mask_count

\* the applied count push_mask gives the entry it pushes on a non-empty stack
push_applied_count(mi, absolute) ==
    IF absolute THEN 0 ELSE mi.applied_return_mask_count

\* a push_mask whose blends take the operands of CreateSelect in another order
push_mask_entry_misblended(stack, mask, negate, absolute) ==
    IF stack = << >>
    THEN MaskInfo(mask, negate, 0)
    ELSE LET mi == Back(stack)
             prev_mask == mi.mask
             prev_negate == mi.negate
             applied_return_mask_count == push_applied_count(mi, absolute)
         IN  IF ~prev_negate
             THEN IF ~negate
                  THEN MaskInfo(IF absolute THEN mask
                                ELSE Select(prev_mask, mask, prev_mask),
                                FALSE, applied_return_mask_count)
                  ELSE MaskInfo(Select(mask, prev_mask, wide_constant_bool(FALSE)),
                                FALSE, applied_return_mask_count)
             ELSE IF ~negate
                  THEN MaskInfo(IF absolute THEN mask
                                ELSE Select(prev_mask, wide_constant_bool(FALSE), mask),
                                FALSE, applied_return_mask_count)
                  ELSE MaskInfo(Select(prev_mask, prev_mask, mask),
                                TRUE, applied_return_mask_count)

\* a push_mask that pushes onto a negated entry as if it were not negated
push_mask_entry_unnegated(stack, mask, negate, absolute) ==
    IF stack = << >>
    THEN MaskInfo(mask, negate, 0)
    ELSE LET mi == Back(stack)
             prev_mask == mi.mask
             applied_return_mask_count == push_applied_count(mi, absolute)
         IN  IF ~negate
             THEN MaskInfo(IF absolute THEN mask
                           ELSE Select(prev_mask, mask, prev_mask),
                           FALSE, applied_return_mask_count)
             ELSE MaskInfo(Select(mask, wide_constant_bool(FALSE), prev_mask),
                           FALSE, applied_return_mask_count)

\* a push_mask that blends with the negated entry below even when absolute
push_mask_entry_relative(stack, mask, negate, absolute) ==
    IF stack = << >>
    THEN MaskInfo(mask, negate, 0)
    ELSE LET mi == Back(stack)
             prev_mask == mi.mask
             prev_negate == mi.negate
             applied_return_mask_count == push_applied_count(mi, absolute)
         IN  IF ~prev_negate
             THEN IF ~negate
                  THEN MaskInfo(IF absolute THEN mask
                                ELSE Select(prev_mask, mask, prev_mask),
                                FALSE, applied_return_mask_count)
                  ELSE MaskInfo(Select(mask, wide_constant_bool(FALSE), prev_mask),
                                FALSE, applied_return_mask_count)
             ELSE IF ~negate
                  THEN MaskInfo(Select(prev_mask, wide_constant_bool(FALSE), mask),
                                FALSE, applied_return_mask_count)
                  ELSE MaskInfo(Select(prev_mask, prev_mask, mask),
                                TRUE, applied_return_mask_count)

\* the entry push_mask pushes
push_mask_entry(stack, mask, negate, absolute) ==
    IF stack = << >>
    THEN MaskInfo(mask, negate, 0)
    ELSE LET mi == Back(stack)
             prev_mask == mi.mask
             prev_negate == mi.negate
             applied_return_mask_count == push_applied_count(mi, absolute)
         IN  IF ~prev_negate
             THEN IF ~negate
                  THEN MaskInfo(IF absolute THEN mask
                                ELSE Select(prev_mask, mask, prev_mask),
                                FALSE, applied_return_mask_count)
                  ELSE MaskInfo(Select(mask, wide_constant_bool(FALSE), prev_mask),
                                FALSE, applied_return_mask_count)
             ELSE IF ~negate
                  THEN MaskInfo(IF absolute THEN mask
                                ELSE Select(prev_mask, wide_constant_bool(FALSE), mask),
                                FALSE, applied_return_mask_count)
                  ELSE MaskInfo(Select(prev_mask, prev_mask, mask),
                                TRUE, applied_return_mask_count)

\* ASSERT(false == absolute) in the two negate branches of push_mask
push_mask_asserts(stack, negate, absolute) ==
    stack = << >> \/ ~(negate /\ absolute)

\* the wide bool current_mask() returns for the top entry mi
current_mask_of(mi) ==
    IF mi.negate
    THEN Select(mi.mask, wide_constant_bool(FALSE), wide_constant_bool(TRUE))
    ELSE mi.mask

current_mask == current_mask_of(Back(m_mask_stack))

\* ----------------------------------------------------------- masked store
push_masking_enabled(stack, enabled) == Append(stack, enabled)
pop_masking_enabled(stack) == Front(stack)

\* an op_store that blends as if the top entry were never negated
op_store_unnegated(val, previous_value, is_vector, mask_stack, enable_stack) ==
    IF mask_stack = << >> \/ ~is_vector \/ enable_stack = << >>
       \/ ~Back(enable_stack)
    THEN val
    ELSE Select(Back(mask_stack).mask, val, previous_value)

\* an op_store that takes masking as enabled while no flag is pushed
op_store_enabled_by_default(val, previous_value, is_vector, mask_stack, enable_stack) ==
    IF mask_stack = << >> \/ ~is_vector
       \/ (enable_stack # << >> /\ ~Back(enable_stack))
    THEN val
    ELSE LET mi == Back(mask_stack)
         IN  IF ~mi.negate
             THEN Select(mi.mask, val, previous_value)
             ELSE Select(mi.mask, previous_value, val)

\* what op_store leaves at a location holding previous_value; is_vector is
\* val->getType()->isVectorTy()
op_store(val, previous_value, is_vector, mask_stack, enable_stack) ==
    IF mask_stack = << >> \/ ~is_vector \/ enable_stack = << >>
       \/ ~Back(enable_stack)
    THEN val
    ELSE LET mi == Back(mask_stack)
         IN  IF ~mi.negate
             THEN Select(mi.mask, val, previous_value)
             ELSE Select(mi.mask, previous_value, val)

\* a store to a persistent slot made under the ambient mask stack and flags
ambient_store(val, previous_value) ==
    op_store(val, previous_value, TRUE, m_mask_stack, m_enable_masking_stack)

\* push_masking_enabled(false); op_store(val, loc); pop_masking_enabled();
unmasked_store(val, previous_value) ==
    op_store(val, previous_value, TRUE, m_mask_stack,
             push_masking_enabled(m_enable_masking_stack, FALSE))

\* the flag stack after the push_masking_enabled(false) ... pop_masking_enabled()
\* pair that brackets every store to a persistent slot
after_unmasked_store ==
    pop_masking_enabled(push_masking_enabled(m_enable_masking_stack, FALSE))

\* ------------------------------------------------- function mask contexts
\* an op_masked_return that reads a negated entry as if it were not negated
return_modified_mask_unnegated(mi, function_mask) ==
    Select(mi.mask, wide_constant_bool(FALSE), function_mask)

\* a masked return that leaves active every lane that does not return,
\* whatever the function mask held
return_modified_mask_reset(mi, function_mask) ==
    IF mi.negate THEN mi.mask ELSE Lanes \ mi.mask

\* modifiedMask of op_masked_return: the lanes of the top entry leave the
\* function mask
return_modified_mask(mi, function_mask) ==
    IF mi.negate
    THEN Select(mi.mask, function_mask, mi.mask)
    ELSE Select(mi.mask, wide_constant_bool(FALSE), function_mask)

\* modifiedMask of op_masked_exit, for the shader mask
exit_modified_shader_mask(mi, shader_mask) ==
    IF mi.negate
    THEN Select(mi.mask, shader_mask, mi.mask)
    ELSE Select(mi.mask, wide_constant_bool(FALSE), shader_mask)

\* modifiedMask of op_masked_exit, for the innermost function mask
exit_modified_function_mask(mi, function_mask) ==
    IF mi.negate
    THEN Select(mi.mask, function_mask, mi.mask)
    ELSE Select(mi.mask, wide_constant_bool(FALSE), function_mask)

\* an apply_return_to_mask_stack that records the count without narrowing
apply_return_entry_unnarrowed(mi, masked_return_count, rs_mask) ==
    IF masked_return_count > mi.applied_return_mask_count
    THEN MaskInfo(mi.mask, mi.negate, masked_return_count)
    ELSE mi

\* an apply_return_to_mask_stack that records one signal more than counted
apply_return_entry_overcounted(mi, masked_return_count, rs_mask) ==
    IF masked_return_count > mi.applied_return_mask_count
    THEN MaskInfo(IF mi.negate
                  THEN Select(rs_mask, mi.mask, wide_constant_bool(TRUE))
                  ELSE Select(rs_mask, mi.mask, rs_mask),
                  mi.negate, masked_return_count + 1)
    ELSE mi

\* an apply_return_to_mask_stack that narrows a negated entry as if it were
\* not negated
apply_return_entry_unnegated(mi, masked_return_count, rs_mask) ==
    IF masked_return_count > mi.applied_return_mask_count
    THEN MaskInfo(Select(rs_mask, mi.mask, rs_mask), mi.negate,
                  masked_return_count)
    ELSE mi

\* an apply_return_to_mask_stack that narrows whatever the counts are and
\* counts one more fold each time
apply_return_entry_recounted(mi, masked_return_count, rs_mask) ==
    MaskInfo(IF mi.negate
             THEN Select(rs_mask, mi.mask, wide_constant_bool(TRUE))
             ELSE Select(rs_mask, mi.mask, rs_mask),
             mi.negate, mi.applied_return_mask_count + 1)

\* the top entry as apply_return_to_mask_stack leaves it
apply_return_entry(mi, masked_return_count, rs_mask) ==
    IF masked_return_count > mi.applied_return_mask_count
    THEN MaskInfo(IF mi.negate
                  THEN Select(rs_mask, mi.mask, wide_constant_bool(TRUE))
                  ELSE Select(rs_mask, mi.mask, rs_mask),
                  mi.negate, masked_return_count)
    ELSE mi

\* an apply_exit_to_mask_stack that stores the function mask back as it was
apply_exit_function_mask_unfolded(shader_mask, function_mask) ==
    function_mask

\* an apply_exit_to_mask_stack that stores the shader mask as the function
\* mask
apply_exit_function_mask_overwritten(shader_mask, function_mask) ==
    shader_mask

\* modified_function_mask of apply_exit_to_mask_stack
apply_exit_function_mask(shader_mask, function_mask) ==
    Select(shader_mask, function_mask, shader_mask)

\* an apply_exit_to_mask_stack that narrows the entry and leaves its applied
\* count behind the return count
apply_exit_entry_uncounted(mi, masked_return_count, modified_function_mask) ==
    MaskInfo(IF mi.negate
             THEN Select(modified_function_mask, mi.mask, wide_constant_bool(TRUE))
             ELSE Select(modified_function_mask, mi.mask, modified_function_mask),
             mi.negate, mi.applied_return_mask_count)

\* the top entry as apply_exit_to_mask_stack leaves it
apply_exit_entry(mi, masked_return_count, modified_function_mask) ==
    MaskInfo(IF mi.negate
             THEN Select(modified_function_mask, mi.mask, wide_constant_bool(TRUE))
             ELSE Select(modified_function_mask, mi.mask, modified_function_mask),
             mi.negate, masked_return_count)

\* ------------------------------------------------- wide bools and integers
\* the vector widths the switches on m_vector_width handle
Widths == {4, 8, 16}

\* the lanes of a vector of width lanes, lane 0 first
LanesOf(width) == 0 .. (width - 1)

\* bit i of the non-negative integer value
Bit(value, i) == (value \div 2^i) % 2

\* the integer whose set bits are the elements of bits
RECURSIVE BitsAsInt(_)
BitsAsInt(bits) ==
    IF bits = {} THEN 0
    ELSE LET i == CHOOSE j \in bits : TRUE
         IN  2^i + BitsAsInt(bits \ {i})

\* CreateBitCast between <width x i1> and i16: well formed when the two
\* types have the same number of bits
bitcast_i16_well_formed(width) == width = 16

\* CreateSExt of a wide bool to elements of element_bits bits and
\* CreateBitCast of that to one integer, as the set of its set bits
sext_bitcast(mask, element_bits) ==
    { element_bits * i + j : i \in mask, j \in 0 .. (element_bits - 1) }

\* the state of the codec after the call step at width, with the integer
\* value and the wide bool mask as its argument and its result
Converted(width, native, step, value, mask) ==
    [width |-> width, native |-> native, step |-> step, value |-> value,
     mask |-> mask, input |-> value, well_formed |-> TRUE,
     non_zero |-> FALSE, any_on |-> FALSE, any_off |-> FALSE]

\* mask_as_int: bitcast to i16 and zero-extend to i32
mask_as_int(width, mask) ==
    [well_formed |-> bitcast_i16_well_formed(width),
     value |-> IF bitcast_i16_well_formed(width) THEN BitsAsInt(mask) ELSE 0]

\* int_as_mask: truncate to i16 and bitcast with native bit masks, else
\* splat, AND each lane with 1 << lane_index and compare with 0
int_as_mask(width, native, value) ==
    IF native
    THEN [well_formed |-> bitcast_i16_well_formed(width),
          mask |-> IF bitcast_i16_well_formed(width)
                   THEN { i \in LanesOf(16) : Bit(value % 2^16, i) = 1 }
                   ELSE {}]
    ELSE [well_formed |-> TRUE,
          mask |-> { lane_index \in LanesOf(width) :
                       Bit(value, lane_index) * 2^lane_index # 0 }]

\* llvm.cttz on an i16 that is not 0
RECURSIVE cttz(_)
cttz(value) == IF value % 2 = 1 THEN 0 ELSE 1 + cttz(value \div 2)

\* the widths at which test_if_mask_has_any_on_or_off passes its ASSERTs
any_on_or_off_asserts(width) == width = 16

\* mask_as_int, allOffConstant and allOnConstant of
\* test_if_mask_has_any_on_or_off, as sets of set bits
any_on_or_off_operands(width, mask) ==
    IF width = 4
    THEN [mask_as_int |-> sext_bitcast(mask, 32), allOff |-> {},
          allOn |-> 0 .. 3]
    ELSE IF width = 8
    THEN [mask_as_int |-> sext_bitcast(mask, 32), allOff |-> {},
          allOn |-> 0 .. 7]
    ELSE [mask_as_int |-> mask, allOff |-> {}, allOn |-> 0 .. 15]

\* test_if_mask_is_non_zero: sign-extend, bitcast to one integer, compare
\* with 0
test_if_mask_is_non_zero(width, mask) ==
    sext_bitcast(mask, IF width = 16 THEN 8 ELSE 32) # {}

\* ------------------------------------------------------------------ calls
Call(name, mask, negate, absolute) ==
    [name |-> name, mask |-> mask, negate |-> negate, absolute |-> absolute,
     is_vector |-> TRUE, result |-> 0]

\* the record of a query: its name and the int it returned, a bool as 0 or 1
Returned(name, result) ==
    [Call(name, {}, FALSE, FALSE) EXCEPT !.result = result]

Names == { "new", "push_mask", "pop_mask", "push_function_mask",
           "pop_function_mask", "push_shader_instance", "pop_shader_instance",
           "op_masked_return", "op_masked_exit", "apply_return_to_mask_stack",
           "apply_exit_to_mask_stack", "push_masked_loop", "pop_masked_loop",
           "op_masked_break", "op_masked_continue",
           "apply_break_to_mask_stack", "apply_continue_to_mask_stack",
           "op_store", "push_masking_enabled", "pop_masking_enabled",
           "current_mask", "new_builder", "masked_return_count",
           "masked_break_count", "masked_continue_count",
           "is_innermost_loop_masked" }

TypeOK ==
    /\ m_mask_stack \in Seq([mask : Masks, negate : BOOLEAN,
                             applied_return_mask_count : 0..MaxCount])
    /\ m_alloca_for_modified_mask_stack \in Seq(Masks)
    /\ m_masked_return_count_stack \in Seq(0..MaxCount)
    /\ m_masked_loop_stack \in Seq([condition_mask : Masks, continue_mask : Masks,
                                    break_count : 0..MaxCount,
                                    continue_count : 0..MaxCount])
    /\ m_masked_exit_count \in 0..MaxCount
    /\ m_enable_masking_stack \in Seq(BOOLEAN)
    /\ aborted \in BOOLEAN
    /\ op.name \in Names
    /\ memory \in Masks
    /\ open \in [regions : Int, functions : Int]
    /\ Len(calls) <= Len(m_alloca_for_modified_mask_stack)
    /\ issued \in Seq([breaks : Nat, continues : Nat])
    /\ previous \in Names
    /\ codec.width \in Widths /\ codec.mask \subseteq LanesOf(codec.width)

\* LLVM_Util::LLVM_Util: every stack empty, m_masked_exit_count(0)
Init ==
    /\ m_mask_stack = << >>
    /\ m_alloca_for_modified_mask_stack = << >>
    /\ m_masked_return_count_stack = << >>
    /\ m_masked_loop_stack = << >>
    /\ m_masked_exit_count = 0
    /\ m_enable_masking_stack = << >>
    /\ aborted = FALSE
    /\ op = Call("new", {}, FALSE, FALSE)
    /\ scopes = << >>
    /\ returned_lanes = << >>
    /\ memory = {}
    /\ calls = << >>
    /\ open = [regions |-> 0, functions |-> 0]
    /\ issued = << >>
    /\ previous = "new"
    /\ codec = Converted(16, FALSE, "new", 0, {})

\* a failed ASSERT that lets the call go on
Overlook(call) ==
    /\ aborted' = FALSE
    /\ op' = call

\* a failed ASSERT ends the process with the state as the call left it
Abort(call) ==
    /\ aborted' = TRUE
    /\ op' = call

push_mask(mask, negate, absolute) ==
    /\ ~aborted
    /\ UNCHANGED memory
    /\ IF push_mask_asserts(m_mask_stack, negate, absolute)
       THEN /\ m_mask_stack' = Append(m_mask_stack,
                   push_mask_entry(m_mask_stack, mask, negate, absolute))
            /\ op' = Call("push_mask", mask, negate, absolute)
            /\ UNCHANGED aborted
       ELSE /\ Abort(Call("push_mask", mask, negate, absolute))
            /\ UNCHANGED m_mask_stack
    /\ UNCHANGED << m_alloca_for_modified_mask_stack, m_masked_return_count_stack,
                    m_masked_loop_stack, m_masked_exit_count,
                    m_enable_masking_stack >>

pop_mask ==
    /\ ~aborted
    /\ UNCHANGED memory
    /\ IF m_mask_stack # << >>
       THEN /\ m_mask_stack' = pop_back(m_mask_stack)
            /\ op' = Call("pop_mask", {}, FALSE, FALSE)
            /\ UNCHANGED aborted
       ELSE /\ Abort(Call("pop_mask", {}, FALSE, FALSE))
            /\ UNCHANGED m_mask_stack
    /\ UNCHANGED << m_alloca_for_modified_mask_stack, m_masked_return_count_stack,
                    m_masked_loop_stack, m_masked_exit_count,
                    m_enable_masking_stack >>

\* the body of push_function_mask, shared with push_shader_instance
PushFunctionMask(startMaskValue, name) ==
    /\ \E uninitialized \in Masks :
         m_alloca_for_modified_mask_stack' =
             Append(m_alloca_for_modified_mask_stack,
                    unmasked_store(startMaskValue, uninitialized))
    /\ m_enable_masking_stack' = after_unmasked_store
    /\ m_masked_return_count_stack' = Append(m_masked_return_count_stack, 0)
    /\ m_mask_stack' = Append(m_mask_stack,
           push_mask_entry(m_mask_stack, startMaskValue, FALSE, TRUE))
    /\ op' = Call(name, startMaskValue, FALSE, TRUE)
    /\ UNCHANGED << m_masked_loop_stack, m_masked_exit_count, aborted >>

push_function_mask(startMaskValue) ==
    /\ ~aborted
    /\ UNCHANGED memory
    /\ PushFunctionMask(startMaskValue, "push_function_mask")

push_shader_instance(startMaskValue) ==
    /\ ~aborted
    /\ UNCHANGED memory
    /\ PushFunctionMask(startMaskValue, "push_shader_instance")

\* shader_mask(): the content of the front function mask alloca
shader_mask == m_alloca_for_modified_mask_stack[1]

\* masked_return_count() where its ASSERT holds
MaskedReturnCount == Back(m_masked_return_count_stack)

\* masked_exit_count()
MaskedExitCount == m_masked_exit_count

\* the body of pop_function_mask, entered with exit count exit_count
PopFunctionMask(name, exit_count) ==
    /\ m_masked_exit_count' = exit_count
    /\ op' = Call(name, {}, FALSE, FALSE)
    /\ UNCHANGED << m_masked_loop_stack, m_enable_masking_stack >>
    /\ IF m_mask_stack = << >>
       THEN /\ aborted' = TRUE
            /\ UNCHANGED << m_mask_stack, m_alloca_for_modified_mask_stack,
                            m_masked_return_count_stack >>
       ELSE /\ m_mask_stack' = pop_back(m_mask_stack)
            /\ IF m_alloca_for_modified_mask_stack = << >>
               THEN /\ aborted' = TRUE
                    /\ UNCHANGED << m_alloca_for_modified_mask_stack,
                                    m_masked_return_count_stack >>
               ELSE /\ m_alloca_for_modified_mask_stack' =
                           Front(m_alloca_for_modified_mask_stack)
                    /\ m_masked_return_count_stack' =
                           Front(m_masked_return_count_stack)
                    /\ UNCHANGED aborted

\* a pop_function_mask that takes the pending exits with it
pop_function_mask_resetting ==
    /\ ~aborted
    /\ UNCHANGED memory
    /\ PopFunctionMask("pop_function_mask", 0)

pop_function_mask ==
    /\ ~aborted
    /\ UNCHANGED memory
    /\ PopFunctionMask("pop_function_mask", m_masked_exit_count)

\* a pop_shader_instance that leaves the masked exit count as it is
pop_shader_instance_unreset ==
    /\ ~aborted
    /\ UNCHANGED memory
    /\ PopFunctionMask("pop_shader_instance", m_masked_exit_count)

pop_shader_instance ==
    /\ ~aborted
    /\ UNCHANGED memory
    /\ PopFunctionMask("pop_shader_instance", 0)

\* the three ASSERTs at the end of new_builder
new_builder_asserts ==
    /\ m_masked_exit_count = 0
    /\ m_alloca_for_modified_mask_stack = << >>
    /\ m_mask_stack = << >>

\* new_builder, as far as the mask contexts go: it checks them and changes
\* none
new_builder ==
    /\ ~aborted
    /\ UNCHANGED memory
    /\ IF new_builder_asserts
       THEN /\ op' = Call("new_builder", {}, FALSE, FALSE)
            /\ UNCHANGED aborted
       ELSE Abort(Call("new_builder", {}, FALSE, FALSE))
    /\ UNCHANGED << m_mask_stack, m_alloca_for_modified_mask_stack,
                    m_masked_return_count_stack, m_masked_loop_stack,
                    m_masked_exit_count, m_enable_masking_stack >>

\* an op_masked_return that counts the return before it checks the mask stack
op_masked_return_counted_first ==
    /\ ~aborted
    /\ UNCHANGED memory
    /\ op' = Call("op_masked_return", {}, FALSE, FALSE)
    /\ UNCHANGED << m_mask_stack, m_masked_loop_stack, m_masked_exit_count >>
    /\ IF m_mask_stack = << >> \/ m_alloca_for_modified_mask_stack = << >>
       THEN /\ aborted' = TRUE
            /\ m_masked_return_count_stack' =
                   IF m_masked_return_count_stack = << >>
                   THEN m_masked_return_count_stack
                   ELSE SetBack(m_masked_return_count_stack,
                                Back(m_masked_return_count_stack) + 1)
            /\ UNCHANGED << m_alloca_for_modified_mask_stack,
                            m_enable_masking_stack >>
       ELSE /\ Back(m_masked_return_count_stack) < MaxCount
            /\ m_alloca_for_modified_mask_stack' =
                   SetBack(m_alloca_for_modified_mask_stack,
                       unmasked_store(
                           return_modified_mask(Back(m_mask_stack),
                               Back(m_alloca_for_modified_mask_stack)),
                           Back(m_alloca_for_modified_mask_stack)))
            /\ m_enable_masking_stack' = after_unmasked_store
            /\ m_masked_return_count_stack' =
                   SetBack(m_masked_return_count_stack,
                           Back(m_masked_return_count_stack) + 1)
            /\ UNCHANGED aborted

\* an op_masked_return that clears the returning lanes and does not count
\* the return
op_masked_return_uncounted ==
    /\ ~aborted
    /\ UNCHANGED memory
    /\ op' = Call("op_masked_return", {}, FALSE, FALSE)
    /\ UNCHANGED << m_mask_stack, m_masked_loop_stack, m_masked_exit_count >>
    /\ IF m_mask_stack = << >> \/ m_alloca_for_modified_mask_stack = << >>
       THEN /\ aborted' = TRUE
            /\ UNCHANGED << m_alloca_for_modified_mask_stack,
                            m_masked_return_count_stack, m_enable_masking_stack >>
       ELSE /\ Back(m_masked_return_count_stack) < MaxCount
            /\ m_alloca_for_modified_mask_stack' =
                   SetBack(m_alloca_for_modified_mask_stack,
                       unmasked_store(
                           return_modified_mask(Back(m_mask_stack),
                               Back(m_alloca_for_modified_mask_stack)),
                           Back(m_alloca_for_modified_mask_stack)))
            /\ m_enable_masking_stack' = after_unmasked_store
            /\ UNCHANGED m_masked_return_count_stack
            /\ UNCHANGED aborted

op_masked_return ==
    /\ ~aborted
    /\ UNCHANGED memory
    /\ op' = Call("op_masked_return", {}, FALSE, FALSE)
    /\ UNCHANGED << m_mask_stack, m_masked_loop_stack, m_masked_exit_count >>
    /\ IF m_mask_stack = << >> \/ m_alloca_for_modified_mask_stack = << >>
       THEN /\ aborted' = TRUE
            /\ UNCHANGED << m_alloca_for_modified_mask_stack,
                            m_masked_return_count_stack, m_enable_masking_stack >>
       ELSE /\ Back(m_masked_return_count_stack) < MaxCount
            /\ m_alloca_for_modified_mask_stack' =
                   SetBack(m_alloca_for_modified_mask_stack,
                       unmasked_store(
                           return_modified_mask(Back(m_mask_stack),
                               Back(m_alloca_for_modified_mask_stack)),
                           Back(m_alloca_for_modified_mask_stack)))
            /\ m_enable_masking_stack' = after_unmasked_store
            /\ m_masked_return_count_stack' =
                   SetBack(m_masked_return_count_stack,
                           Back(m_masked_return_count_stack) + 1)
            /\ UNCHANGED aborted

\* an op_masked_exit that clears the exiting lanes from the mask of every
\* open function scope
exit_stores_every_function(mi, allocas) ==
    [i \in 1..Len(allocas) |->
        unmasked_store(exit_modified_shader_mask(mi, allocas[i]), allocas[i])]

\* an op_masked_exit that clears the exiting lanes from the innermost
\* function mask only
exit_stores_innermost(mi, allocas) ==
    SetBack(allocas,
        unmasked_store(exit_modified_function_mask(mi, Back(allocas)),
                       Back(allocas)))

\* an op_masked_exit that stores to a function mask only, and so to nothing
\* when only the shader scope is open
exit_stores_function_only(mi, allocas) ==
    IF Len(allocas) > 1
    THEN SetBack(allocas,
             unmasked_store(exit_modified_function_mask(mi, Back(allocas)),
                            Back(allocas)))
    ELSE allocas

\* the function mask allocas after the stores of op_masked_exit: the shader
\* mask (front) first, then, inside a function scope, the function mask (back)
exit_stores(mi, allocas) ==
    LET shader_stored ==
            [allocas EXCEPT ![1] =
                unmasked_store(exit_modified_shader_mask(mi, allocas[1]),
                               allocas[1])]
    IN  IF Len(allocas) > 1
        THEN SetBack(shader_stored,
                 unmasked_store(
                     exit_modified_function_mask(mi, Back(shader_stored)),
                     Back(shader_stored)))
        ELSE shader_stored

op_masked_exit ==
    /\ ~aborted
    /\ UNCHANGED memory
    /\ op' = Call("op_masked_exit", {}, FALSE, FALSE)
    /\ UNCHANGED << m_mask_stack, m_masked_loop_stack >>
    /\ IF m_mask_stack = << >> \/ m_alloca_for_modified_mask_stack = << >>
       THEN /\ aborted' = TRUE
            /\ UNCHANGED << m_alloca_for_modified_mask_stack, m_masked_exit_count,
                            m_masked_return_count_stack, m_enable_masking_stack >>
       ELSE /\ Back(m_masked_return_count_stack) < MaxCount
            /\ m_masked_exit_count < MaxCount
            /\ m_alloca_for_modified_mask_stack' =
                   exit_stores(Back(m_mask_stack), m_alloca_for_modified_mask_stack)
            /\ m_enable_masking_stack' = after_unmasked_store
            /\ m_masked_exit_count' = m_masked_exit_count + 1
            /\ m_masked_return_count_stack' =
                   SetBack(m_masked_return_count_stack,
                           Back(m_masked_return_count_stack) + 1)
            /\ UNCHANGED aborted

apply_return_to_mask_stack ==
    /\ ~aborted
    /\ UNCHANGED memory
    /\ op' = Call("apply_return_to_mask_stack", {}, FALSE, FALSE)
    /\ UNCHANGED << m_alloca_for_modified_mask_stack, m_masked_return_count_stack,
                    m_masked_loop_stack, m_masked_exit_count,
                    m_enable_masking_stack >>
    /\ IF m_mask_stack = << >>
       THEN aborted' = TRUE /\ UNCHANGED m_mask_stack
       ELSE IF m_masked_return_count_stack = << >>
       \* back() of an empty vector: the count read is indeterminate, and a
       \* count above the applied count runs into the ASSERT on the allocas
       THEN \E masked_return_count \in 0..MaxCount :
               /\ aborted' = (masked_return_count >
                                Back(m_mask_stack).applied_return_mask_count)
               /\ UNCHANGED m_mask_stack
       ELSE /\ m_mask_stack' =
                   SetBack(m_mask_stack,
                       apply_return_entry(Back(m_mask_stack),
                           Back(m_masked_return_count_stack),
                           Back(m_alloca_for_modified_mask_stack)))
            /\ UNCHANGED aborted

apply_exit_to_mask_stack ==
    /\ ~aborted
    /\ UNCHANGED memory
    /\ op' = Call("apply_exit_to_mask_stack", {}, FALSE, FALSE)
    /\ UNCHANGED << m_masked_loop_stack, m_masked_exit_count >>
    /\ IF m_mask_stack = << >> \/ m_alloca_for_modified_mask_stack = << >>
       THEN /\ aborted' = TRUE
            /\ UNCHANGED << m_mask_stack, m_alloca_for_modified_mask_stack,
                            m_masked_return_count_stack, m_enable_masking_stack >>
       ELSE LET mi == Back(m_mask_stack)
                modified_function_mask ==
                    apply_exit_function_mask(m_alloca_for_modified_mask_stack[1],
                        Back(m_alloca_for_modified_mask_stack))
                masked_return_count == Back(m_masked_return_count_stack) + 1
            IN  /\ Back(m_masked_return_count_stack) < MaxCount
                /\ m_alloca_for_modified_mask_stack' =
                       SetBack(m_alloca_for_modified_mask_stack,
                           unmasked_store(modified_function_mask,
                               Back(m_alloca_for_modified_mask_stack)))
                /\ m_enable_masking_stack' = after_unmasked_store
                /\ m_masked_return_count_stack' =
                       SetBack(m_masked_return_count_stack, masked_return_count)
                /\ IF masked_return_count > mi.applied_return_mask_count
                   THEN /\ m_mask_stack' =
                               SetBack(m_mask_stack,
                                   apply_exit_entry(mi, masked_return_count,
                                                    modified_function_mask))
                        /\ UNCHANGED aborted
                   ELSE aborted' = TRUE /\ UNCHANGED m_mask_stack

\* ----------------------------------------------------- loop mask contexts
\* the breaks and continues the open loops have counted together
RECURSIVE Signals(_), masked_break_count_of_all(_)
Signals(loops) ==
    IF loops = << >> THEN 0
    ELSE loops[1].break_count + loops[1].continue_count + Signals(Tail(loops))

\* a masked_break_count() that counts the breaks of every open loop
masked_break_count_of_all(loops) ==
    IF loops = << >> THEN 0
    ELSE loops[1].break_count + masked_break_count_of_all(Tail(loops))

\* masked_break_count() as the loop stack loops gives it
masked_break_count_of(loops) ==
    IF loops = << >> THEN 0 ELSE Back(loops).break_count

\* masked_continue_count() as the loop stack loops gives it
masked_continue_count_of(loops) ==
    IF loops = << >> THEN 0 ELSE Back(loops).continue_count

MaskedBreakCount == masked_break_count_of(m_masked_loop_stack)

MaskedContinueCount == masked_continue_count_of(m_masked_loop_stack)

\* an op_masked_break that reads a negated entry as if it were not negated
break_new_cond_mask_unnegated(mi, cond_mask) ==
    Select(mi.mask, wide_constant_bool(FALSE), cond_mask)

\* new_cond_mask of op_masked_break
break_new_cond_mask(mi, cond_mask) ==
    IF mi.negate
    THEN Select(mi.mask, cond_mask, mi.mask)
    ELSE Select(mi.mask, wide_constant_bool(FALSE), cond_mask)

\* an op_masked_continue that overwrites the accumulator on a negated entry
continue_new_mask_overwriting(mi, continue_mask) ==
    IF mi.negate
    THEN Select(mi.mask, wide_constant_bool(FALSE), wide_constant_bool(TRUE))
    ELSE Select(mi.mask, mi.mask, continue_mask)

\* new_abs_continue_mask of op_masked_continue
continue_new_mask(mi, continue_mask) ==
    IF mi.negate
    THEN Select(mi.mask, continue_mask, wide_constant_bool(TRUE))
    ELSE Select(mi.mask, mi.mask, continue_mask)

\* the top entry as apply_break_to_mask_stack leaves it
apply_break_entry(mi, cond_mask) ==
    MaskInfo(IF mi.negate
             THEN Select(cond_mask, mi.mask, wide_constant_bool(TRUE))
             ELSE Select(cond_mask, mi.mask, cond_mask),
             mi.negate, mi.applied_return_mask_count)

\* an apply_continue_to_mask_stack that keeps the continued lanes, as
\* apply_break_to_mask_stack keeps the lanes of the condition mask
apply_continue_entry_uninverted(mi, continue_mask) ==
    MaskInfo(IF mi.negate
             THEN Select(continue_mask, mi.mask, wide_constant_bool(TRUE))
             ELSE Select(continue_mask, mi.mask, continue_mask),
             mi.negate, mi.applied_return_mask_count)

\* the top entry as apply_continue_to_mask_stack leaves it
apply_continue_entry(mi, continue_mask) ==
    MaskInfo(IF mi.negate
             THEN Select(continue_mask, wide_constant_bool(TRUE), mi.mask)
             ELSE Select(continue_mask, wide_constant_bool(FALSE), mi.mask),
             mi.negate, mi.applied_return_mask_count)

\* a push_masked_loop that gives the loop a mask entry of its own, as
\* push_function_mask gives one to a function
push_masked_loop_with_entry(cond_mask, continue_mask) ==
    /\ ~aborted
    /\ UNCHANGED memory
    /\ m_masked_loop_stack' =
           Append(m_masked_loop_stack, LoopInfo(cond_mask, continue_mask, 0, 0))
    /\ m_mask_stack' = Append(m_mask_stack, MaskInfo(cond_mask, FALSE, 0))
    /\ op' = Call("push_masked_loop", {}, FALSE, FALSE)
    /\ UNCHANGED << m_alloca_for_modified_mask_stack,
                    m_masked_return_count_stack, m_masked_exit_count,
                    m_enable_masking_stack, aborted >>

\* the caller hands in the two allocas of the loop, holding cond_mask and
\* continue_mask
push_masked_loop(cond_mask, continue_mask) ==
    /\ ~aborted
    /\ UNCHANGED memory
    /\ m_masked_loop_stack' =
           Append(m_masked_loop_stack, LoopInfo(cond_mask, continue_mask, 0, 0))
    /\ op' = Call("push_masked_loop", {}, FALSE, FALSE)
    /\ UNCHANGED << m_mask_stack, m_alloca_for_modified_mask_stack,
                    m_masked_return_count_stack, m_masked_exit_count,
                    m_enable_masking_stack, aborted >>

\* pop_back() with no check: on an empty vector the behaviour is undefined,
\* the process may die or go on
pop_masked_loop ==
    /\ ~aborted
    /\ UNCHANGED memory
    /\ op' = Call("pop_masked_loop", {}, FALSE, FALSE)
    /\ UNCHANGED << m_mask_stack, m_alloca_for_modified_mask_stack,
                    m_masked_return_count_stack, m_masked_exit_count,
                    m_enable_masking_stack >>
    /\ IF m_masked_loop_stack # << >>
       THEN /\ m_masked_loop_stack' = Front(m_masked_loop_stack)
            /\ UNCHANGED aborted
       ELSE /\ aborted' \in BOOLEAN
            /\ UNCHANGED m_masked_loop_stack

op_masked_break ==
    /\ ~aborted
    /\ UNCHANGED memory
    /\ op' = Call("op_masked_break", {}, FALSE, FALSE)
    /\ UNCHANGED << m_mask_stack, m_alloca_for_modified_mask_stack,
                    m_masked_return_count_stack, m_masked_exit_count >>
    /\ IF m_mask_stack = << >> \/ m_masked_loop_stack = << >>
       THEN /\ aborted' = TRUE
            /\ UNCHANGED << m_masked_loop_stack, m_enable_masking_stack >>
       ELSE LET loop == Back(m_masked_loop_stack)
            IN  /\ Signals(m_masked_loop_stack) < MaxCount
                /\ m_masked_loop_stack' =
                       SetBack(m_masked_loop_stack,
                           [loop EXCEPT
                              !.condition_mask =
                                  unmasked_store(
                                      break_new_cond_mask(Back(m_mask_stack),
                                                          loop.condition_mask),
                                      loop.condition_mask),
                              !.break_count = loop.break_count + 1])
                /\ m_enable_masking_stack' = after_unmasked_store
                /\ UNCHANGED aborted

op_masked_continue ==
    /\ ~aborted
    /\ UNCHANGED memory
    /\ op' = Call("op_masked_continue", {}, FALSE, FALSE)
    /\ UNCHANGED << m_mask_stack, m_alloca_for_modified_mask_stack,
                    m_masked_return_count_stack, m_masked_exit_count >>
    /\ IF m_mask_stack = << >> \/ m_masked_loop_stack = << >>
       THEN /\ aborted' = TRUE
            /\ UNCHANGED << m_masked_loop_stack, m_enable_masking_stack >>
       ELSE LET loop == Back(m_masked_loop_stack)
            IN  /\ Signals(m_masked_loop_stack) < MaxCount
                /\ m_masked_loop_stack' =
                       SetBack(m_masked_loop_stack,
                           [loop EXCEPT
                              !.continue_mask =
                                  unmasked_store(
                                      continue_new_mask(Back(m_mask_stack),
                                                        loop.continue_mask),
                                      loop.continue_mask),
                              !.continue_count = loop.continue_count + 1])
                /\ m_enable_masking_stack' = after_unmasked_store
                /\ UNCHANGED aborted

apply_break_to_mask_stack ==
    /\ ~aborted
    /\ UNCHANGED memory
    /\ op' = Call("apply_break_to_mask_stack", {}, FALSE, FALSE)
    /\ UNCHANGED << m_alloca_for_modified_mask_stack, m_masked_return_count_stack,
                    m_masked_loop_stack, m_masked_exit_count,
                    m_enable_masking_stack >>
    /\ IF m_mask_stack = << >> \/ m_masked_loop_stack = << >>
       THEN aborted' = TRUE /\ UNCHANGED m_mask_stack
       ELSE /\ m_mask_stack' =
                   SetBack(m_mask_stack,
                       apply_break_entry(Back(m_mask_stack),
                           Back(m_masked_loop_stack).condition_mask))
            /\ UNCHANGED aborted

apply_continue_to_mask_stack ==
    /\ ~aborted
    /\ UNCHANGED memory
    /\ op' = Call("apply_continue_to_mask_stack", {}, FALSE, FALSE)
    /\ UNCHANGED << m_alloca_for_modified_mask_stack, m_masked_return_count_stack,
                    m_masked_loop_stack, m_masked_exit_count,
                    m_enable_masking_stack >>
    /\ IF m_mask_stack = << >> \/ m_masked_loop_stack = << >>
       THEN aborted' = TRUE /\ UNCHANGED m_mask_stack
       ELSE /\ m_mask_stack' =
                   SetBack(m_mask_stack,
                       apply_continue_entry(Back(m_mask_stack),
                           Back(m_masked_loop_stack).continue_mask))
            /\ UNCHANGED aborted

\* ------------------------------------------------ stores of the program
\* a call of op_store(val, ptr) on the location memory; a value that is not
\* a vector is uniform
OpStore(val, is_vector) ==
    /\ ~aborted
    /\ memory' = op_store(val, memory, is_vector, m_mask_stack,
                          m_enable_masking_stack)
    /\ op' = [Call("op_store", val, FALSE, FALSE) EXCEPT !.is_vector = is_vector]
    /\ UNCHANGED << m_mask_stack, m_alloca_for_modified_mask_stack,
                    m_masked_return_count_stack, m_masked_loop_stack,
                    m_masked_exit_count, m_enable_masking_stack, aborted >>

\* a call of push_masking_enabled(enabled)
PushMaskingEnabled(enabled) ==
    /\ ~aborted
    /\ UNCHANGED memory
    /\ m_enable_masking_stack' =
           push_masking_enabled(m_enable_masking_stack, enabled)
    /\ op' = Call("push_masking_enabled", {}, FALSE, FALSE)
    /\ UNCHANGED << m_mask_stack, m_alloca_for_modified_mask_stack,
                    m_masked_return_count_stack, m_masked_loop_stack,
                    m_masked_exit_count, aborted >>

\* a call of pop_masking_enabled()
PopMaskingEnabled ==
    /\ ~aborted
    /\ UNCHANGED memory
    /\ op' = Call("pop_masking_enabled", {}, FALSE, FALSE)
    /\ IF m_enable_masking_stack = << >>
       THEN aborted' = TRUE /\ UNCHANGED m_enable_masking_stack
       ELSE /\ m_enable_masking_stack' =
                   pop_masking_enabled(m_enable_masking_stack)
            /\ UNCHANGED aborted
    /\ UNCHANGED << m_mask_stack, m_alloca_for_modified_mask_stack,
                    m_masked_return_count_stack, m_masked_loop_stack,
                    m_masked_exit_count >>

\* a call of current_mask(): it reads the top entry and changes nothing
CurrentMask ==
    /\ ~aborted
    /\ UNCHANGED memory
    /\ IF m_mask_stack # << >>
       THEN /\ op' = Call("current_mask", current_mask, FALSE, FALSE)
            /\ UNCHANGED aborted
       ELSE Abort(Call("current_mask", {}, FALSE, FALSE))
    /\ UNCHANGED << m_mask_stack, m_alloca_for_modified_mask_stack,
                    m_masked_return_count_stack, m_masked_loop_stack,
                    m_masked_exit_count, m_enable_masking_stack >>

\* what a query leaves alone: every stack and the masked exit count
QueryChangesNothing ==
    UNCHANGED << m_mask_stack, m_alloca_for_modified_mask_stack,
                 m_masked_return_count_stack, m_masked_loop_stack,
                 m_masked_exit_count, m_enable_masking_stack, memory >>

\* a masked_return_count() that answers 0 when no function mask context is
\* open
CallMaskedReturnCountUnchecked ==
    /\ ~aborted
    /\ op' = Returned("masked_return_count",
                      IF m_masked_return_count_stack # << >>
                      THEN MaskedReturnCount ELSE 0)
    /\ UNCHANGED aborted
    /\ QueryChangesNothing

\* a call of masked_return_count(): the count of the innermost function mask
\* context, and an ASSERT that there is one
CallMaskedReturnCount ==
    /\ ~aborted
    /\ IF m_masked_return_count_stack # << >>
       THEN /\ op' = Returned("masked_return_count", MaskedReturnCount)
            /\ UNCHANGED aborted
       ELSE Abort(Returned("masked_return_count", 0))
    /\ QueryChangesNothing

\* a call of masked_break_count()
CallMaskedBreakCount ==
    /\ ~aborted
    /\ op' = Returned("masked_break_count", MaskedBreakCount)
    /\ UNCHANGED aborted
    /\ QueryChangesNothing

\* a call of masked_continue_count()
CallMaskedContinueCount ==
    /\ ~aborted
    /\ op' = Returned("masked_continue_count", MaskedContinueCount)
    /\ UNCHANGED aborted
    /\ QueryChangesNothing

\* is_innermost_loop_masked() as the loop stack loops gives it: false with no
\* loop open; the loops here are all pushed with the alloca of a condition
\* mask, never with nullptr
is_innermost_loop_masked_of(loops) == loops # << >>

\* a call of is_innermost_loop_masked()
CallIsInnermostLoopMasked ==
    /\ ~aborted
    /\ op' = Returned("is_innermost_loop_masked",
                      IF is_innermost_loop_masked_of(m_masked_loop_stack)
                      THEN 1 ELSE 0)
    /\ UNCHANGED aborted
    /\ QueryChangesNothing

\* room for n more entries on the stacks
Room(n) ==
    Len(m_mask_stack) + Len(m_alloca_for_modified_mask_stack)
        + Len(m_masked_loop_stack) + n <= MaxDepth

\* the calls that open and that close a function mask context
FunctionPushes == { "push_function_mask", "push_shader_instance" }
FunctionPops == { "pop_function_mask", "pop_shader_instance" }

\* the history of the step, by the name of the call: a completed push_mask
\* opens a conditional region and a completed pop_mask closes one, a
\* completed function push opens a function scope and a completed function
\* pop closes one
TrackOpen ==
    open' =
        IF aborted' THEN open
        ELSE IF op'.name = "push_mask"
        THEN [open EXCEPT !.regions = @ + 1]
        ELSE IF op'.name = "pop_mask"
        THEN [open EXCEPT !.regions = @ - 1]
        ELSE IF op'.name \in FunctionPushes
        THEN [open EXCEPT !.functions = @ + 1]
        ELSE IF op'.name \in FunctionPops
        THEN [open EXCEPT !.functions = @ - 1]
        ELSE open

\* the history of the step: a pushed entry is named after its call and
\* starts with no lane, a popped entry takes its history with it, and a
\* masked return or exit adds the lanes it was issued under to every open
\* entry
Track ==
    /\ TrackOpen
    /\ UNCHANGED << calls, issued, previous, codec >>
    /\ scopes' =
        IF Len(m_mask_stack') > Len(m_mask_stack)
        THEN Append(scopes, op'.name)
        ELSE SubSeq(scopes, 1, Len(m_mask_stack'))
    /\ returned_lanes' =
        IF Len(m_mask_stack') > Len(m_mask_stack)
        THEN Append(returned_lanes, {})
        ELSE IF Len(m_mask_stack') < Len(m_mask_stack)
        THEN SubSeq(returned_lanes, 1, Len(m_mask_stack'))
        ELSE IF op'.name \in {"op_masked_return", "op_masked_exit"} /\ ~aborted'
        THEN [i \in 1..Len(returned_lanes) |->
                 returned_lanes[i] \cup current_mask]
        ELSE returned_lanes

\* the history of the step: a function push records the start mask and the
\* three stacks as the caller had them, a masked return adds the lanes it was
\* issued under and counts itself in the innermost function scope, and a
\* function pop takes the record with it and leaves the number of its
\* returns with the caller until the next call
TrackCalls ==
    /\ TrackOpen
    /\ UNCHANGED << returned_lanes, issued, previous, codec >>
    /\ scopes' =
        IF Len(m_mask_stack') > Len(m_mask_stack)
        THEN Append(scopes, op'.name)
        ELSE SubSeq(scopes, 1, Len(m_mask_stack'))
    /\ calls' =
        LET settled == IF calls = << >> THEN calls
                       ELSE SetBack(calls, [Back(calls) EXCEPT !.nested = 0])
        IN  IF aborted' THEN calls
            ELSE IF op'.name \in FunctionPushes
            THEN Append(settled,
                     [start |-> op'.mask, lanes |-> {}, count |-> 0,
                      masks |-> m_mask_stack,
                      slots |-> m_alloca_for_modified_mask_stack,
                      counts |-> m_masked_return_count_stack,
                      nested |-> 0])
            ELSE IF op'.name \in FunctionPops
            THEN IF Len(calls) > 1
                 THEN SetBack(Front(calls),
                          [calls[Len(calls) - 1] EXCEPT
                              !.nested = Back(calls).count])
                 ELSE Front(calls)
            ELSE IF op'.name = "op_masked_return"
            THEN SetBack(calls,
                     [Back(calls) EXCEPT !.lanes = @ \cup current_mask,
                                         !.count = @ + 1, !.nested = 0])
            ELSE settled

Untracked ==
    UNCHANGED << scopes, returned_lanes, calls, open, issued, previous, codec >>

\* the innermost open scope was pushed by the call name
Innermost(name) == scopes # << >> /\ Back(scopes) = name

\* the calls on the mask stack and the function mask contexts, in any order
Next ==
    \/ \E mask \in Predicates, negate \in BOOLEAN, absolute \in BOOLEAN :
          Room(1) /\ push_mask(mask, negate, absolute)
                  /\ Untracked
    \/ pop_mask /\ Untracked
    \/ \E startMaskValue \in Predicates :
          Room(2) /\ push_function_mask(startMaskValue)
                  /\ Untracked
    \/ pop_function_mask /\ Untracked
    \/ op_masked_return /\ Untracked
    \/ op_masked_exit /\ Untracked
    \/ apply_return_to_mask_stack /\ Untracked
    \/ apply_exit_to_mask_stack /\ Untracked

Spec == Init /\ [][Next]_vars

\* what the caller has stored in the two allocas of a loop it pushes: every
\* lane iterating and none continued, or the odd lanes iterating and the even
\* lanes continued
LoopSlots ==
    { << Lanes, {} >>,
      << {l \in Lanes : l % 2 = 1}, {l \in Lanes : l % 2 = 0} >> }

\* the calls on the loop contexts, in any order, around one mask entry and
\* one function mask context
NextLoop ==
    \/ \E mask \in Predicates, negate \in BOOLEAN :
          /\ m_mask_stack = << >>
          /\ push_mask(mask, negate, FALSE) /\ Untracked
    \/ pop_mask /\ Untracked
    \/ \E startMaskValue \in Predicates :
          /\ m_mask_stack = << >> /\ m_alloca_for_modified_mask_stack = << >>
          /\ push_function_mask(startMaskValue) /\ Untracked
    \/ \E slots \in LoopSlots :
          /\ Len(m_masked_loop_stack) < MaxLoops
          /\ push_masked_loop(slots[1], slots[2]) /\ Untracked
    \/ pop_masked_loop /\ Untracked
    \/ op_masked_break /\ Untracked
    \/ op_masked_continue /\ Untracked
    \/ apply_break_to_mask_stack /\ Untracked
    \/ apply_continue_to_mask_stack /\ Untracked

SpecLoop == Init /\ [][NextLoop]_vars

\* the calls around a masked exit, in any order: function scopes opened one
\* inside the other, and one mask entry at a time on the mask stack
NextExit ==
    \/ \E mask \in Predicates, negate \in BOOLEAN :
          /\ m_mask_stack = << >>
          /\ push_mask(mask, negate, FALSE) /\ Untracked
    \/ pop_mask /\ Untracked
    \/ \E startMaskValue \in Predicates :
          /\ m_mask_stack = << >>
          /\ Len(m_alloca_for_modified_mask_stack) < MaxFuncs
          /\ push_function_mask(startMaskValue) /\ Untracked
    \/ pop_function_mask /\ Untracked
    \/ op_masked_exit /\ Untracked

SpecExit == Init /\ [][NextExit]_vars

\* the calls as a front end nests them: a shader instance outermost, inside
\* it function scopes and conditional regions (relative pushes), each popped
\* by the call that matches its push, innermost first
NextNested ==
    \/ \E startMaskValue \in Predicates :
          /\ scopes = << >>
          /\ Len(scopes) < MaxScopes /\ push_shader_instance(startMaskValue) /\ Track
    \/ Innermost("push_shader_instance") /\ pop_shader_instance /\ Track
    \/ \E startMaskValue \in Predicates :
          /\ scopes # << >>
          /\ Len(scopes) < MaxScopes /\ push_function_mask(startMaskValue) /\ Track
    \/ Innermost("push_function_mask") /\ pop_function_mask /\ Track
    \/ \E mask \in Predicates, negate \in BOOLEAN :
          /\ scopes # << >>
          /\ Len(scopes) < MaxScopes /\ push_mask(mask, negate, FALSE) /\ Track
    \/ Innermost("push_mask") /\ pop_mask /\ Track
    \/ scopes # << >> /\ op_masked_return /\ Track
    \/ scopes # << >> /\ op_masked_exit /\ Track
    \/ scopes # << >> /\ apply_return_to_mask_stack /\ Track

SpecNested == Init /\ [][NextNested]_vars

\* the start masks of the function scopes of SpecCalls: every lane, or the
\* odd lanes
Starts == { Lanes, {l \in Lanes : l % 2 = 1} }
\* the conditions of the conditional regions of SpecCalls: the odd or the
\* even lanes
Conditions == Predicates \ { {}, Lanes }

\* the calls of function scopes with masked returns and no masked exit, as
\* a front end nests them: a shader instance outermost, inside it function
\* scopes and conditional regions, each popped by the call that matches its
\* push, innermost first
NextCalls ==
    \/ \E startMaskValue \in Starts :
          /\ scopes = << >>
          /\ push_shader_instance(startMaskValue) /\ TrackCalls
    \/ Innermost("push_shader_instance") /\ pop_shader_instance /\ TrackCalls
    \/ \E startMaskValue \in Starts :
          /\ scopes # << >>
          /\ Len(scopes) < MaxNest /\ push_function_mask(startMaskValue)
          /\ TrackCalls
    \/ Innermost("push_function_mask") /\ pop_function_mask /\ TrackCalls
    \/ \E mask \in Conditions, negate \in BOOLEAN :
          /\ scopes # << >>
          /\ Len(scopes) < MaxNest /\ push_mask(mask, negate, FALSE)
          /\ TrackCalls
    \/ Innermost("push_mask") /\ pop_mask /\ TrackCalls
    \/ scopes # << >> /\ op_masked_return /\ TrackCalls
    \/ scopes # << >> /\ apply_return_to_mask_stack /\ TrackCalls

SpecCalls == Init /\ [][NextCalls]_vars

\* the values op_store is given: a wide value, or a uniform one
Stored ==
    { << val, TRUE >> : val \in Predicates }
        \cup { << val, FALSE >> : val \in { {}, Lanes } }

\* the stores of the generated program, under one mask entry and the
\* masking-enabled flags, in any order
NextStore ==
    \/ \E mask \in Predicates, negate \in BOOLEAN :
          /\ m_mask_stack = << >>
          /\ push_mask(mask, negate, FALSE) /\ Untracked
    \/ pop_mask /\ Untracked
    \/ \E enabled \in BOOLEAN :
          /\ Len(m_enable_masking_stack) < MaxFlags
          /\ PushMaskingEnabled(enabled) /\ Untracked
    \/ PopMaskingEnabled /\ Untracked
    \/ \E stored \in Stored :
          OpStore(stored[1], stored[2]) /\ Untracked

SpecStore == Init /\ [][NextStore]_vars

\* the calls that write a persistent slot, in any order, under one
\* masking-enabled flag: one conditional region at the bottom of the mask
\* stack and above it either a shader instance with one function scope or
\* one loop
NextSlots ==
    \/ \E enabled \in BOOLEAN :
          /\ m_enable_masking_stack = << >>
          /\ PushMaskingEnabled(enabled) /\ Untracked
    \/ PopMaskingEnabled /\ Untracked
    \/ \E mask \in Conditions, negate \in BOOLEAN :
          /\ m_mask_stack = << >>
          /\ push_mask(mask, negate, FALSE) /\ Untracked
    \/ pop_mask /\ Untracked
    \/ \E startMaskValue \in Starts :
          /\ m_masked_loop_stack = << >>
          /\ m_alloca_for_modified_mask_stack = << >>
          /\ push_shader_instance(startMaskValue) /\ Untracked
    \/ \E startMaskValue \in Starts :
          /\ Len(m_alloca_for_modified_mask_stack) = 1
          /\ Len(m_mask_stack) <= 2
          /\ push_function_mask(startMaskValue) /\ Untracked
    \/ pop_function_mask /\ Untracked
    \/ \E slots \in LoopSlots :
          /\ m_masked_loop_stack = << >>
          /\ m_alloca_for_modified_mask_stack = << >>
          /\ push_masked_loop(slots[1], slots[2]) /\ Untracked
    \/ m_masked_loop_stack # << >> /\ pop_masked_loop /\ Untracked
    \/ op_masked_return /\ Untracked
    \/ op_masked_break /\ Untracked
    \/ op_masked_continue /\ Untracked
    \/ op_masked_exit /\ Untracked
    \/ apply_exit_to_mask_stack /\ Untracked

SpecSlots == Init /\ [][NextSlots]_vars

\* the properly nested calls, with the fold of a masked exit among them
NextFolds ==
    \/ NextNested
    \/ scopes # << >> /\ apply_exit_to_mask_stack /\ Track

SpecFolds == Init /\ [][NextFolds]_vars

\* the history of the step for SpecShader: the scopes opened and closed
TrackScopes ==
    /\ TrackOpen
    /\ UNCHANGED << scopes, returned_lanes, calls, issued, previous, codec >>

\* a shader instance with function scopes nested in it, each popped by the
\* call that matches its push, and one conditional region in the innermost
\* scope, with masked returns and exits
NextShader ==
    \/ \E startMaskValue \in Starts :
          /\ m_alloca_for_modified_mask_stack = << >>
          /\ m_mask_stack = << >>
          /\ push_shader_instance(startMaskValue) /\ TrackScopes
    \/ /\ Len(m_alloca_for_modified_mask_stack) = 1
       /\ Len(m_mask_stack) = 1
       /\ pop_shader_instance /\ TrackScopes
    \/ \E startMaskValue \in Starts :
          /\ m_alloca_for_modified_mask_stack # << >>
          /\ Len(m_alloca_for_modified_mask_stack) < MaxFuncs
          /\ Len(m_mask_stack) = Len(m_alloca_for_modified_mask_stack)
          /\ push_function_mask(startMaskValue) /\ TrackScopes
    \/ /\ Len(m_alloca_for_modified_mask_stack) > 1
       /\ Len(m_mask_stack) = Len(m_alloca_for_modified_mask_stack)
       /\ pop_function_mask /\ TrackScopes
    \/ \E mask \in Conditions :
          /\ m_alloca_for_modified_mask_stack # << >>
          /\ Len(m_mask_stack) = Len(m_alloca_for_modified_mask_stack)
          /\ push_mask(mask, FALSE, FALSE) /\ TrackScopes
    \/ /\ Len(m_mask_stack) > Len(m_alloca_for_modified_mask_stack)
       /\ pop_mask /\ TrackScopes
    \/ m_mask_stack # << >> /\ op_masked_return /\ TrackScopes
    \/ m_mask_stack # << >> /\ op_masked_exit /\ TrackScopes

SpecShader == Init /\ [][NextShader]_vars

\* pushes, pops and reads of the mask stack and the function mask contexts,
\* in any order
NextPops ==
    \/ \E mask \in Predicates, negate \in BOOLEAN :
          Room(1) /\ push_mask(mask, negate, FALSE) /\ Untracked
    \/ pop_mask /\ Untracked
    \/ \E startMaskValue \in Predicates :
          Room(2) /\ push_function_mask(startMaskValue) /\ Untracked
    \/ pop_function_mask /\ Untracked
    \/ CurrentMask /\ Untracked

SpecPops == Init /\ [][NextPops]_vars

\* the calls on the loop contexts and the function mask contexts and the four
\* masked signals, in any order
NextSignals ==
    \/ NextLoop
    \/ pop_function_mask /\ Untracked
    \/ op_masked_return /\ Untracked
    \/ op_masked_exit /\ Untracked

SpecSignals == Init /\ [][NextSignals]_vars

\* the history of the step for SpecCounts: a pushed loop has no break and no
\* continue issued in it, a popped loop takes its history with it, and a
\* completed masked break or continue is issued in the innermost open loop
TrackLoops ==
    /\ UNCHANGED << scopes, returned_lanes, calls, open, previous, codec >>
    /\ issued' =
        IF aborted' THEN issued
        ELSE IF op'.name = "push_masked_loop"
        THEN Append(issued, [breaks |-> 0, continues |-> 0])
        ELSE IF op'.name = "pop_masked_loop"
        THEN Front(issued)
        ELSE IF op'.name = "op_masked_break"
        THEN SetBack(issued, [Back(issued) EXCEPT !.breaks = @ + 1])
        ELSE IF op'.name = "op_masked_continue"
        THEN SetBack(issued, [Back(issued) EXCEPT !.continues = @ + 1])
        ELSE issued

\* loops nested one in the other, each popped after it was pushed, around
\* one mask entry, with masked breaks and continues and their folds
NextCounts ==
    \/ \E mask \in Predicates, negate \in BOOLEAN :
          /\ m_mask_stack = << >>
          /\ push_mask(mask, negate, FALSE) /\ TrackLoops
    \/ pop_mask /\ TrackLoops
    \/ \E slots \in LoopSlots :
          /\ Len(m_masked_loop_stack) < MaxLoops
          /\ push_masked_loop(slots[1], slots[2]) /\ TrackLoops
    \/ m_masked_loop_stack # << >> /\ pop_masked_loop /\ TrackLoops
    \/ op_masked_break /\ TrackLoops
    \/ op_masked_continue /\ TrackLoops
    \/ apply_break_to_mask_stack /\ TrackLoops
    \/ apply_continue_to_mask_stack /\ TrackLoops

SpecCounts == Init /\ [][NextCounts]_vars

\* a shader instance with one function scope in it or one loop, each popped
\* by the call that matches its push, one conditional region in the innermost
\* scope, and the four masked signals
NextExits ==
    \/ \E startMaskValue \in Starts :
          /\ m_alloca_for_modified_mask_stack = << >>
          /\ m_mask_stack = << >>
          /\ push_shader_instance(startMaskValue) /\ TrackScopes
    \/ /\ Len(m_alloca_for_modified_mask_stack) = 1
       /\ Len(m_mask_stack) = 1
       /\ m_masked_loop_stack = << >>
       /\ pop_shader_instance /\ TrackScopes
    \/ \E startMaskValue \in Starts :
          /\ Len(m_alloca_for_modified_mask_stack) = 1
          /\ Len(m_mask_stack) = 1
          /\ m_masked_loop_stack = << >>
          /\ push_function_mask(startMaskValue) /\ TrackScopes
    \/ /\ Len(m_alloca_for_modified_mask_stack) = 2
       /\ Len(m_mask_stack) = 2
       /\ pop_function_mask /\ TrackScopes
    \/ \E mask \in Conditions :
          /\ m_alloca_for_modified_mask_stack # << >>
          /\ Len(m_mask_stack) = Len(m_alloca_for_modified_mask_stack)
          /\ push_mask(mask, FALSE, FALSE) /\ TrackScopes
    \/ /\ Len(m_mask_stack) > Len(m_alloca_for_modified_mask_stack)
       /\ pop_mask /\ TrackScopes
    \/ \E slots \in LoopSlots :
          /\ Len(m_alloca_for_modified_mask_stack) = 1
          /\ Len(m_mask_stack) = 1
          /\ m_masked_loop_stack = << >>
          /\ push_masked_loop(slots[1], slots[2]) /\ TrackScopes
    \/ /\ m_masked_loop_stack # << >>
       /\ Len(m_mask_stack) = 1
       /\ pop_masked_loop /\ TrackScopes
    \/ m_mask_stack # << >> /\ op_masked_return /\ TrackScopes
    \/ m_mask_stack # << >> /\ op_masked_exit /\ TrackScopes
    \/ m_masked_loop_stack # << >> /\ op_masked_break /\ TrackScopes
    \/ m_masked_loop_stack # << >> /\ op_masked_continue /\ TrackScopes

SpecExits == Init /\ [][NextExits]_vars

\* a shader instance with a function scope and a second one nested in it,
\* each popped by the call that matches its push, one conditional region in
\* the innermost scope, masked returns and exits, and the folds of a pending
\* return and of a pending exit, which the caller may or may not make; a
\* function scope starts with lanes its caller still has in its own slot
NextPending ==
    \/ \E startMaskValue \in Starts :
          /\ m_alloca_for_modified_mask_stack = << >>
          /\ m_mask_stack = << >>
          /\ push_shader_instance(startMaskValue) /\ TrackScopes
    \/ /\ Len(m_alloca_for_modified_mask_stack) = 1
       /\ Len(m_mask_stack) = 1
       /\ pop_shader_instance /\ TrackScopes
    \/ \E startMaskValue \in Starts :
          /\ Len(m_alloca_for_modified_mask_stack) \in {1, 2}
          /\ Len(m_mask_stack) = Len(m_alloca_for_modified_mask_stack)
          /\ startMaskValue \subseteq Back(m_alloca_for_modified_mask_stack)
          /\ push_function_mask(startMaskValue) /\ TrackScopes
    \/ /\ Len(m_alloca_for_modified_mask_stack) > 1
       /\ Len(m_mask_stack) = Len(m_alloca_for_modified_mask_stack)
       /\ pop_function_mask /\ TrackScopes
    \/ \E mask \in Conditions, negate \in BOOLEAN :
          /\ m_alloca_for_modified_mask_stack # << >>
          /\ Len(m_mask_stack) = Len(m_alloca_for_modified_mask_stack)
          /\ push_mask(mask, negate, FALSE) /\ TrackScopes
    \/ /\ Len(m_mask_stack) > Len(m_alloca_for_modified_mask_stack)
       /\ pop_mask /\ TrackScopes
    \/ m_mask_stack # << >> /\ op_masked_return /\ TrackScopes
    \/ m_mask_stack # << >> /\ op_masked_exit /\ TrackScopes
    \/ m_mask_stack # << >> /\ apply_exit_to_mask_stack /\ TrackScopes
    \/ m_mask_stack # << >> /\ apply_return_to_mask_stack /\ TrackScopes

SpecPending == Init /\ [][NextPending]_vars

\* the lifetime of the function masks and of the two masks of a loop: a
\* shader instance with a function scope in it, started with lanes the shader
\* still has, a loop and a conditional region in the innermost scope, each
\* popped by the call that matches its push, the four masked signals and the
\* folds of a return and of an exit; the history keeps the start mask of
\* every open function scope
NextLifetime ==
    \/ \E startMaskValue \in Starts :
          /\ m_alloca_for_modified_mask_stack = << >>
          /\ m_mask_stack = << >>
          /\ push_shader_instance(startMaskValue) /\ TrackCalls
    \/ /\ Len(m_alloca_for_modified_mask_stack) = 1
       /\ Len(m_mask_stack) = 1
       /\ m_masked_loop_stack = << >>
       /\ pop_shader_instance /\ TrackCalls
    \/ \E startMaskValue \in Starts :
          /\ Len(m_alloca_for_modified_mask_stack) = 1
          /\ Len(m_mask_stack) = 1
          /\ m_masked_loop_stack = << >>
          /\ startMaskValue \subseteq Back(m_alloca_for_modified_mask_stack)
          /\ push_function_mask(startMaskValue) /\ TrackCalls
    \/ /\ Len(m_alloca_for_modified_mask_stack) = 2
       /\ Len(m_mask_stack) = 2
       /\ m_masked_loop_stack = << >>
       /\ pop_function_mask /\ TrackCalls
    \/ \E slots \in LoopSlots :
          /\ m_alloca_for_modified_mask_stack # << >>
          /\ Len(m_mask_stack) = Len(m_alloca_for_modified_mask_stack)
          /\ m_masked_loop_stack = << >>
          /\ push_masked_loop(slots[1], slots[2]) /\ TrackCalls
    \/ /\ m_masked_loop_stack # << >>
       /\ Len(m_mask_stack) = Len(m_alloca_for_modified_mask_stack)
       /\ pop_masked_loop /\ TrackCalls
    \/ \E mask \in Conditions, negate \in BOOLEAN :
          /\ m_alloca_for_modified_mask_stack # << >>
          /\ Len(m_mask_stack) = Len(m_alloca_for_modified_mask_stack)
          /\ push_mask(mask, negate, FALSE) /\ TrackCalls
    \/ /\ Len(m_mask_stack) > Len(m_alloca_for_modified_mask_stack)
       /\ pop_mask /\ TrackCalls
    \/ m_mask_stack # << >> /\ op_masked_return /\ TrackCalls
    \/ m_mask_stack # << >> /\ op_masked_exit /\ TrackCalls
    \/ m_mask_stack # << >> /\ apply_return_to_mask_stack /\ TrackCalls
    \/ m_mask_stack # << >> /\ apply_exit_to_mask_stack /\ TrackCalls
    \/ m_mask_stack # << >> /\ m_masked_loop_stack # << >>
          /\ op_masked_break /\ TrackCalls
    \/ m_mask_stack # << >> /\ m_masked_loop_stack # << >>
          /\ op_masked_continue /\ TrackCalls

SpecLifetime == Init /\ [][NextLifetime]_vars

\* ------------------------------------------- conversions and tests of masks
\* what the conversions and tests leave alone
Stacks ==
    << m_mask_stack, m_alloca_for_modified_mask_stack,
       m_masked_return_count_stack, m_masked_loop_stack, m_masked_exit_count,
       m_enable_masking_stack, op, scopes, returned_lanes, memory, calls,
       open, issued, previous >>

\* an instruction that is not well formed stops a build that checks it and
\* is no value in a build that does not
IllFormed == aborted' \in BOOLEAN

\* a call of int_as_mask(value) on the integer the caller has
IntAsMask ==
    /\ ~aborted
    /\ codec.step = "new"
    /\ LET r == int_as_mask(codec.width, codec.native, codec.value)
       IN  /\ codec' = [codec EXCEPT !.step = "int_as_mask",
                                     !.mask = r.mask,
                                     !.well_formed = r.well_formed]
           /\ IF r.well_formed THEN UNCHANGED aborted ELSE IllFormed
    /\ UNCHANGED Stacks

\* a call of mask_as_int(mask) on the wide bool int_as_mask gave
MaskAsInt ==
    /\ ~aborted
    /\ codec.step = "int_as_mask" /\ codec.well_formed
    /\ LET r == mask_as_int(codec.width, codec.mask)
       IN  /\ codec' = [codec EXCEPT !.step = "mask_as_int",
                                     !.value = r.value,
                                     !.well_formed = r.well_formed]
           /\ IF r.well_formed THEN UNCHANGED aborted ELSE IllFormed
    /\ UNCHANGED Stacks

\* a call of op_1st_active_lane_of(mask): with no lane active the count of
\* trailing zeros is undefined
Op1stActiveLaneOf ==
    /\ ~aborted
    /\ codec.step = "new"
    /\ IF codec.width # 16
       THEN /\ aborted' = TRUE
            /\ codec' = [codec EXCEPT !.step = "op_1st_active_lane_of"]
       ELSE /\ UNCHANGED aborted
            /\ \E firstNonZeroIndex \in
                     IF codec.mask = {} THEN 0 .. 16
                     ELSE { cttz(BitsAsInt(codec.mask)) } :
                  codec' = [codec EXCEPT !.step = "op_1st_active_lane_of",
                                         !.value = firstNonZeroIndex]
    /\ UNCHANGED Stacks

\* a call of test_if_mask_is_non_zero(mask)
TestIfMaskIsNonZero ==
    /\ ~aborted
    /\ codec.step = "new"
    /\ codec' = [codec EXCEPT !.step = "test_if_mask_is_non_zero",
                              !.non_zero =
                                  test_if_mask_is_non_zero(codec.width,
                                                           codec.mask)]
    /\ UNCHANGED aborted
    /\ UNCHANGED Stacks

\* a call of test_if_mask_has_any_on_or_off(mask, any_on, any_off)
TestIfMaskHasAnyOnOrOff ==
    /\ ~aborted
    /\ codec.step = "new"
    /\ IF any_on_or_off_asserts(codec.width)
       THEN LET o == any_on_or_off_operands(codec.width, codec.mask)
            IN  /\ codec' =
                       [codec EXCEPT
                           !.step = "test_if_mask_has_any_on_or_off",
                           !.any_on = (o.mask_as_int # o.allOff),
                           !.any_off = (o.mask_as_int # o.allOn)]
                /\ UNCHANGED aborted
       ELSE /\ aborted' = TRUE
            /\ codec' = [codec EXCEPT
                             !.step = "test_if_mask_has_any_on_or_off"]
    /\ UNCHANGED Stacks

\* LLVM_Util::LLVM_Util, with nothing converted yet
Constructed ==
    /\ m_mask_stack = << >>
    /\ m_alloca_for_modified_mask_stack = << >>
    /\ m_masked_return_count_stack = << >>
    /\ m_masked_loop_stack = << >>
    /\ m_masked_exit_count = 0
    /\ m_enable_masking_stack = << >>
    /\ aborted = FALSE
    /\ op = Call("new", {}, FALSE, FALSE)
    /\ scopes = << >>
    /\ returned_lanes = << >>
    /\ memory = {}
    /\ calls = << >>
    /\ open = [regions |-> 0, functions |-> 0]
    /\ issued = << >>
    /\ previous = "new"

\* every integer bitmask of every width, on the native and on the
\* synthesized path
InitCodec ==
    /\ Constructed
    /\ \E width \in Widths, native \in BOOLEAN :
          \E b \in 0 .. (2^width - 1) :
             codec = Converted(width, native, "new", b, {})

NextCodec ==
    \/ IntAsMask
    \/ MaskAsInt

SpecCodec == InitCodec /\ [][NextCodec]_vars

\* every integer bitmask of every width, and each of them with the bit above
\* the last lane set as well, on the native and on the synthesized path
InitPaths ==
    /\ Constructed
    /\ \E width \in Widths, native \in BOOLEAN, above \in {0, 1} :
          \E b \in 0 .. (2^width - 1) :
             codec = Converted(width, native, "new", b + above * 2^width, {})

NextPaths == IntAsMask

SpecPaths == InitPaths /\ [][NextPaths]_vars

\* every wide bool of every width
InitLanes ==
    /\ Constructed
    /\ \E width \in Widths :
          \E mask \in SUBSET LanesOf(width) :
             codec = Converted(width, FALSE, "new", 0, mask)

NextLanes ==
    \/ Op1stActiveLaneOf
    \/ TestIfMaskIsNonZero
    \/ TestIfMaskHasAnyOnOrOff

SpecLanes == InitLanes /\ [][NextLanes]_vars

\* the history of the step for SpecTwice: the call before this one
TrackPrevious ==
    /\ previous' = op.name
    /\ UNCHANGED << scopes, returned_lanes, calls, open, issued, codec >>

\* one function scope, one conditional region in it or outside it and one
\* loop, with masked returns, breaks and continues and their folds, each
\* fold called any number of times
NextTwice ==
    \/ \E startMaskValue \in Starts :
          /\ m_alloca_for_modified_mask_stack = << >>
          /\ m_mask_stack = << >>
          /\ push_function_mask(startMaskValue) /\ TrackPrevious
    \/ /\ Len(m_alloca_for_modified_mask_stack) = 1
       /\ Len(m_mask_stack) = 1
       /\ pop_function_mask /\ TrackPrevious
    \/ \E mask \in Conditions, negate \in BOOLEAN :
          /\ Len(m_mask_stack) = Len(m_alloca_for_modified_mask_stack)
          /\ push_mask(mask, negate, FALSE) /\ TrackPrevious
    \/ /\ Len(m_mask_stack) > Len(m_alloca_for_modified_mask_stack)
       /\ pop_mask /\ TrackPrevious
    \/ \E slots \in LoopSlots :
          /\ m_masked_loop_stack = << >>
          /\ push_masked_loop(slots[1], slots[2]) /\ TrackPrevious
    \/ m_masked_loop_stack # << >> /\ pop_masked_loop /\ TrackPrevious
    \/ /\ m_mask_stack # << >> /\ m_alloca_for_modified_mask_stack # << >>
       /\ op_masked_return /\ TrackPrevious
    \/ /\ m_mask_stack # << >> /\ m_masked_loop_stack # << >>
       /\ op_masked_break /\ TrackPrevious
    \/ /\ m_mask_stack # << >> /\ m_masked_loop_stack # << >>
       /\ op_masked_continue /\ TrackPrevious
    \/ /\ m_mask_stack # << >> /\ m_alloca_for_modified_mask_stack # << >>
       /\ apply_return_to_mask_stack /\ TrackPrevious
    \/ /\ m_mask_stack # << >> /\ m_masked_loop_stack # << >>
       /\ apply_break_to_mask_stack /\ TrackPrevious
    \/ /\ m_mask_stack # << >> /\ m_masked_loop_stack # << >>
       /\ apply_continue_to_mask_stack /\ TrackPrevious

SpecTwice == Init /\ [][NextTwice]_vars

\* the code generation of shader instances, one after the other: a builder
\* is made between instances, and inside an instance a function scope, a
\* loop and a conditional region in the innermost scope are each closed by
\* the call that matches their opening, with the four masked signals issued
\* anywhere inside
NextInstance ==
    \/ m_mask_stack = << >> /\ new_builder /\ TrackPrevious
    \/ \E startMaskValue \in Starts :
          /\ m_alloca_for_modified_mask_stack = << >>
          /\ m_mask_stack = << >>
          /\ push_shader_instance(startMaskValue) /\ TrackPrevious
    \/ /\ Len(m_alloca_for_modified_mask_stack) = 1
       /\ Len(m_mask_stack) = 1
       /\ m_masked_loop_stack = << >>
       /\ pop_shader_instance /\ TrackPrevious
    \/ \E startMaskValue \in Starts :
          /\ Len(m_alloca_for_modified_mask_stack) = 1
          /\ Len(m_mask_stack) = 1
          /\ m_masked_loop_stack = << >>
          /\ startMaskValue \subseteq Back(m_alloca_for_modified_mask_stack)
          /\ push_function_mask(startMaskValue) /\ TrackPrevious
    \/ /\ Len(m_alloca_for_modified_mask_stack) = 2
       /\ Len(m_mask_stack) = 2
       /\ m_masked_loop_stack = << >>
       /\ pop_function_mask /\ TrackPrevious
    \/ \E slots \in LoopSlots :
          /\ m_alloca_for_modified_mask_stack # << >>
          /\ Len(m_mask_stack) = Len(m_alloca_for_modified_mask_stack)
          /\ m_masked_loop_stack = << >>
          /\ push_masked_loop(slots[1], slots[2]) /\ TrackPrevious
    \/ /\ m_masked_loop_stack # << >>
       /\ Len(m_mask_stack) = Len(m_alloca_for_modified_mask_stack)
       /\ pop_masked_loop /\ TrackPrevious
    \/ \E mask \in Conditions :
          /\ m_alloca_for_modified_mask_stack # << >>
          /\ Len(m_mask_stack) = Len(m_alloca_for_modified_mask_stack)
          /\ push_mask(mask, FALSE, FALSE) /\ TrackPrevious
    \/ /\ Len(m_mask_stack) > Len(m_alloca_for_modified_mask_stack)
       /\ pop_mask /\ TrackPrevious
    \/ m_mask_stack # << >> /\ op_masked_return /\ TrackPrevious
    \/ m_mask_stack # << >> /\ op_masked_exit /\ TrackPrevious
    \/ m_mask_stack # << >> /\ m_masked_loop_stack # << >>
          /\ op_masked_break /\ TrackPrevious
    \/ m_mask_stack # << >> /\ m_masked_loop_stack # << >>
          /\ op_masked_continue /\ TrackPrevious

SpecInstance == Init /\ [][NextInstance]_vars

\* the queries of the counts, called at any time around one function scope
\* and one loop in it, with masked returns, breaks and continues
NextQueries ==
    \/ \E startMaskValue \in Starts :
          /\ m_alloca_for_modified_mask_stack = << >>
          /\ m_mask_stack = << >>
          /\ push_function_mask(startMaskValue) /\ Untracked
    \/ /\ Len(m_mask_stack) = 1
       /\ m_masked_loop_stack = << >>
       /\ pop_function_mask /\ Untracked
    \/ \E slots \in LoopSlots :
          /\ m_mask_stack # << >>
          /\ m_masked_loop_stack = << >>
          /\ push_masked_loop(slots[1], slots[2]) /\ Untracked
    \/ m_masked_loop_stack # << >> /\ pop_masked_loop /\ Untracked
    \/ m_mask_stack # << >> /\ op_masked_return /\ Untracked
    \/ m_masked_loop_stack # << >> /\ op_masked_break /\ Untracked
    \/ m_masked_loop_stack # << >> /\ op_masked_continue /\ Untracked
    \/ CallMaskedReturnCount /\ Untracked
    \/ CallMaskedBreakCount /\ Untracked
    \/ CallMaskedContinueCount /\ Untracked
    \/ CallIsInnermostLoopMasked /\ Untracked

SpecQueries == Init /\ [][NextQueries]_vars

\* ----------------------------------------------------------------- claims
\* the lanes an entry makes active: its mask, or the complement when negated
Active(mi) == IF mi.negate THEN Lanes \ mi.mask ELSE mi.mask

\* the step is a completed call of name
Done(name) == op'.name = name /\ ~aborted'

\* everything but the mask stack is as it was
RestUnchanged ==
    UNCHANGED << m_alloca_for_modified_mask_stack, m_masked_return_count_stack,
                 m_masked_loop_stack, m_masked_exit_count,
                 m_enable_masking_stack >>

\* C1: a relative push_mask of m onto a non-empty stack pushes the entry of
\* the blend table: lane-wise m where prev else prev for (false,false), false
\* where m else prev for (false,true), false where prev else m for
\* (true,false), prev where prev else m for (true,true); the new entry is
\* negated in the (true,true) case only.
C1_BlendTable ==
    [][ (Done("push_mask") /\ ~op'.absolute /\ m_mask_stack # << >>) =>
          LET prev == Back(m_mask_stack).mask
              prevNegate == Back(m_mask_stack).negate
              m == op'.mask
              negate == op'.negate
              new == Back(m_mask_stack')
          IN  /\ Len(m_mask_stack') = Len(m_mask_stack) + 1
              /\ new.negate = (prevNegate /\ negate)
              /\ \A l \in Lanes :
                   l \in new.mask <=>
                     CASE ~prevNegate /\ ~negate ->
                            IF l \in prev THEN l \in m ELSE l \in prev
                       [] ~prevNegate /\ negate ->
                            IF l \in m THEN FALSE ELSE l \in prev
                       [] prevNegate /\ ~negate ->
                            IF l \in prev THEN FALSE ELSE l \in m
                       [] prevNegate /\ negate ->
                            IF l \in prev THEN l \in prev ELSE l \in m
    ]_vars

\* a negated entry pushed onto a negated entry, both masks with a lane on and
\* a lane off
C1_Witness ==
    /\ op.name = "push_mask" /\ ~aborted /\ op.negate /\ ~op.absolute
    /\ Len(m_mask_stack) >= 2
    /\ m_mask_stack[Len(m_mask_stack) - 1].negate
    /\ m_mask_stack[Len(m_mask_stack) - 1].mask \notin {{}, Lanes}
    /\ op.mask \notin {{}, Lanes, m_mask_stack[Len(m_mask_stack) - 1].mask}
    /\ Back(m_mask_stack).negate

\* C2: right after a relative push_mask(m, negate) current_mask() is the
\* prior current_mask() AND (negate ? NOT m : m) on a non-empty stack, and
\* (negate ? NOT m : m) on an empty one.
C2_CurrentAfterPush ==
    [][ (Done("push_mask") /\ ~op'.absolute) =>
          LET pushed == IF op'.negate THEN Lanes \ op'.mask ELSE op'.mask
          IN  current_mask' =
                IF m_mask_stack = << >> THEN pushed
                ELSE current_mask \cap pushed
    ]_vars

\* push(m, true, false) onto a negated entry that leaves some lane active
C2_Witness ==
    /\ op.name = "push_mask" /\ ~aborted /\ op.negate /\ ~op.absolute
    /\ Len(m_mask_stack) >= 2
    /\ m_mask_stack[Len(m_mask_stack) - 1].negate
    /\ op.mask # {}
    /\ current_mask # {}

\* C3: push_mask(m, false, false); current_mask(); pop_mask() leaves the
\* mask stack as it was: the push adds one entry and changes none, the pop
\* removes exactly that entry and changes nothing else, and current_mask()
\* is again that of the entry below.
C3_StackIdentity ==
    [][ /\ (Done("push_mask") /\ ~op'.negate /\ ~op'.absolute) =>
              /\ pop_back(m_mask_stack') = m_mask_stack
              /\ Len(m_mask_stack') = Len(m_mask_stack) + 1
              /\ RestUnchanged
        /\ (op.name = "push_mask" /\ ~op.negate /\ ~op.absolute
              /\ Done("pop_mask")) =>
              /\ Len(m_mask_stack') = Len(m_mask_stack) - 1
              /\ \A i \in 1..Len(m_mask_stack') :
                    m_mask_stack'[i] = m_mask_stack[i]
              /\ RestUnchanged
              /\ m_mask_stack' # << >> =>
                    current_mask' =
                       current_mask_of(m_mask_stack[Len(m_mask_stack) - 1])
    ]_vars

\* a pop that uncovers two entries, the upper negated with signals applied
C3_Witness ==
    /\ op.name = "pop_mask" /\ ~aborted
    /\ Len(m_mask_stack) >= 2
    /\ Back(m_mask_stack).applied_return_mask_count > 0
    /\ Back(m_mask_stack).negate

\* C4: right after an absolute push of m (negate = false) current_mask() is
\* m itself, whatever the entry below, and the new entry is not negated.
C4_AbsolutePush ==
    [][ (Done("push_mask") /\ op'.absolute /\ ~op'.negate) =>
          /\ current_mask' = op'.mask
          /\ ~Back(m_mask_stack').negate
          /\ Len(m_mask_stack') = Len(m_mask_stack) + 1
    ]_vars

\* an absolute push onto a negated entry whose active lanes are not m
C4_Witness ==
    /\ op.name = "push_mask" /\ ~aborted /\ op.absolute /\ ~op.negate
    /\ Len(m_mask_stack) >= 2
    /\ m_mask_stack[Len(m_mask_stack) - 1].negate
    /\ Active(m_mask_stack[Len(m_mask_stack) - 1]) \cap op.mask # op.mask
    /\ op.mask # {}

\* C5 as the specification states it: the applied count of a pushed entry is
\* the parent's when absolute is set and 0 otherwise.
C5_AsStated ==
    [][ Done("push_mask") =>
          Back(m_mask_stack').applied_return_mask_count =
             IF op'.absolute /\ m_mask_stack # << >>
             THEN Back(m_mask_stack).applied_return_mask_count
             ELSE 0
    ]_vars

\* C5: the applied count of an entry push_mask creates is 0 when the stack
\* is empty or absolute is set, and the parent entry's applied count on a
\* relative push.
C5_AppliedCount ==
    [][ Done("push_mask") =>
          Back(m_mask_stack').applied_return_mask_count =
             IF op'.absolute \/ m_mask_stack = << >>
             THEN 0
             ELSE Back(m_mask_stack).applied_return_mask_count
    ]_vars

\* a relative push that inherited a non-zero applied count
C5_Witness ==
    /\ op.name = "push_mask" /\ ~aborted /\ ~op.absolute
    /\ Len(m_mask_stack) >= 2
    /\ Back(m_mask_stack).applied_return_mask_count > 0

\* C6: op_masked_return clears the active lanes p of the top entry from the
\* innermost function mask (new = old AND NOT p), adds 1 to the innermost
\* return count, and changes no other function mask or count, no loop
\* context and no mask entry.
C6_MaskedReturn ==
    [][ Done("op_masked_return") =>
          LET p == Active(Back(m_mask_stack))
              n == Len(m_alloca_for_modified_mask_stack)
          IN  /\ Len(m_alloca_for_modified_mask_stack') = n
              /\ m_alloca_for_modified_mask_stack'[n] =
                     m_alloca_for_modified_mask_stack[n] \ p
              /\ Len(m_masked_return_count_stack') = n
              /\ m_masked_return_count_stack'[n] =
                     m_masked_return_count_stack[n] + 1
              /\ \A i \in 1..(n - 1) :
                    /\ m_alloca_for_modified_mask_stack'[i] =
                           m_alloca_for_modified_mask_stack[i]
                    /\ m_masked_return_count_stack'[i] =
                           m_masked_return_count_stack[i]
              /\ UNCHANGED << m_mask_stack, m_masked_loop_stack >>
    ]_vars

\* a return under a negated entry that took one lane of the inner of two
\* function masks and left the other
C6_Witness ==
    /\ op.name = "op_masked_return" /\ ~aborted
    /\ Len(m_alloca_for_modified_mask_stack) >= 2
    /\ Back(m_mask_stack).negate
    /\ Back(m_mask_stack).mask \notin {{}, Lanes}
    /\ Back(m_alloca_for_modified_mask_stack) = Back(m_mask_stack).mask
    /\ m_alloca_for_modified_mask_stack[1] # {}

\* C7: op_masked_break clears the active lanes p of the top entry from the
\* innermost loop's condition mask (new = old AND NOT p) and adds 1 to its
\* break count; its continue mask and continue count, the outer loops and
\* the function mask contexts are unchanged.
C7_MaskedBreak ==
    [][ Done("op_masked_break") =>
          LET p == Active(Back(m_mask_stack))
              n == Len(m_masked_loop_stack)
              old == m_masked_loop_stack[n]
              new == m_masked_loop_stack'[n]
          IN  /\ Len(m_masked_loop_stack') = n
              /\ new.condition_mask = old.condition_mask \ p
              /\ new.break_count = old.break_count + 1
              /\ new.continue_mask = old.continue_mask
              /\ new.continue_count = old.continue_count
              /\ \A i \in 1..(n - 1) :
                    m_masked_loop_stack'[i] = m_masked_loop_stack[i]
              /\ UNCHANGED << m_alloca_for_modified_mask_stack,
                              m_masked_return_count_stack, m_mask_stack >>
    ]_vars

\* a break under a negated entry, inside two loops and a function scope, that
\* took a lane of the condition mask and left a lane
C7_Witness ==
    /\ op.name = "op_masked_break" /\ ~aborted
    /\ Len(m_masked_loop_stack) >= 2
    /\ m_alloca_for_modified_mask_stack # << >>
    /\ Back(m_mask_stack).negate
    /\ Back(m_mask_stack).mask \notin {{}, Lanes}
    /\ Back(m_masked_loop_stack).condition_mask = Back(m_mask_stack).mask
    /\ Back(m_masked_loop_stack).continue_mask # {}
    /\ m_masked_loop_stack[1].condition_mask # {}

\* C8: op_masked_continue sets the active lanes p of the top entry in the
\* innermost loop's continue mask (new = old OR p) and adds 1 to its continue
\* count; its condition mask and break count are unchanged.
C8_MaskedContinue ==
    [][ Done("op_masked_continue") =>
          LET p == Active(Back(m_mask_stack))
              n == Len(m_masked_loop_stack)
              old == m_masked_loop_stack[n]
              new == m_masked_loop_stack'[n]
          IN  /\ Len(m_masked_loop_stack') = n
              /\ new.continue_mask = old.continue_mask \cup p
              /\ new.continue_count = old.continue_count + 1
              /\ new.condition_mask = old.condition_mask
              /\ new.break_count = old.break_count
    ]_vars

\* a continue under a negated entry that added its lane to a lane already
\* continued
C8_Witness ==
    /\ op.name = "op_masked_continue" /\ ~aborted
    /\ Back(m_mask_stack).negate
    /\ Back(m_mask_stack).mask \notin {{}, Lanes}
    /\ Back(m_masked_loop_stack).continue_mask = Lanes
    /\ Back(m_masked_loop_stack).condition_mask \notin {{}, Lanes}

\* C9: op_masked_exit with more than one function mask context open clears
\* the active lanes p of the top entry from the outermost (shader) slot and
\* from the innermost context's slot (each becomes old AND NOT p), adds 1 to
\* the exit count and to the innermost context's return count, and leaves
\* the slot and the count of every context strictly between them unchanged.
C9_MaskedExit ==
    [][ Done("op_masked_exit") /\ Len(m_alloca_for_modified_mask_stack) > 1 =>
          LET p == Active(Back(m_mask_stack))
              n == Len(m_alloca_for_modified_mask_stack)
          IN  /\ Len(m_alloca_for_modified_mask_stack') = n
              /\ Len(m_masked_return_count_stack') = n
              /\ m_alloca_for_modified_mask_stack'[1] =
                     m_alloca_for_modified_mask_stack[1] \ p
              /\ m_alloca_for_modified_mask_stack'[n] =
                     m_alloca_for_modified_mask_stack[n] \ p
              /\ m_masked_exit_count' = m_masked_exit_count + 1
              /\ m_masked_return_count_stack'[n] =
                     m_masked_return_count_stack[n] + 1
              /\ \A i \in 2..(n - 1) :
                    /\ m_alloca_for_modified_mask_stack'[i] =
                           m_alloca_for_modified_mask_stack[i]
                    /\ m_masked_return_count_stack'[i] =
                           m_masked_return_count_stack[i]
    ]_vars

\* an exit under a negated entry, three function scopes deep, that took a
\* lane from the shader mask and the innermost function mask, both of which
\* keep a lane, while the scope between them still holds every lane
C9_Witness ==
    /\ op.name = "op_masked_exit" /\ ~aborted
    /\ Len(m_alloca_for_modified_mask_stack) >= 3
    /\ Back(m_mask_stack).negate
    /\ Back(m_mask_stack).mask \notin {{}, Lanes}
    /\ m_alloca_for_modified_mask_stack[1] = Back(m_mask_stack).mask
    /\ Back(m_alloca_for_modified_mask_stack) = Back(m_mask_stack).mask
    /\ m_alloca_for_modified_mask_stack[2] = Lanes
    /\ m_masked_exit_count = 1
    /\ Back(m_masked_return_count_stack) = 1
    /\ m_masked_return_count_stack[2] = 0

\* C10 as the specification states it: a pop with return signals pending
\* (the count above the popped entry's applied count) folds them, so that
\* right after it current_mask() of the parent holds no lane that took a
\* masked return or exit inside the popped region.
C10_AsStated ==
    [][ (Done("pop_mask") /\ m_mask_stack' # << >>
           /\ m_masked_return_count_stack # << >>
           /\ Back(m_masked_return_count_stack) >
                 Back(m_mask_stack).applied_return_mask_count) =>
          current_mask' \cap Back(returned_lanes) = {}
    ]_vars

\* C10: pop_mask removes the top entry and narrows nothing; the fold is the
\* call apply_return_to_mask_stack, which, when the return count is above
\* the top entry's applied count, narrows that entry's active lanes to
\* those still in the innermost function mask and records the count.
C10_FoldIsSeparate ==
    [][ /\ Done("pop_mask") =>
              /\ Len(m_mask_stack') = Len(m_mask_stack) - 1
              /\ \A i \in 1..Len(m_mask_stack') :
                    m_mask_stack'[i] = m_mask_stack[i]
        /\ (Done("apply_return_to_mask_stack")
              /\ m_masked_return_count_stack # << >>
              /\ Back(m_masked_return_count_stack) >
                    Back(m_mask_stack).applied_return_mask_count) =>
              /\ current_mask' =
                    current_mask \cap Back(m_alloca_for_modified_mask_stack)
              /\ current_mask' \subseteq Back(m_alloca_for_modified_mask_stack')
              /\ Back(m_mask_stack').applied_return_mask_count =
                    Back(m_masked_return_count_stack)
              /\ pop_back(m_mask_stack') = pop_back(m_mask_stack)
    ]_vars

\* right after a pop the parent still holds a lane that returned inside
\* it, with the signal pending
C10_Witness ==
    /\ op.name = "pop_mask" /\ ~aborted
    /\ m_mask_stack # << >>
    /\ m_masked_return_count_stack # << >>
    /\ Back(m_masked_return_count_stack) >
          Back(m_mask_stack).applied_return_mask_count
    /\ current_mask \cap Back(returned_lanes) # {}
    /\ ~(current_mask \subseteq Back(m_alloca_for_modified_mask_stack))

MaskedPath ==
    /\ m_mask_stack # << >>
    /\ op'.is_vector
    /\ m_enable_masking_stack # << >>
    /\ Back(m_enable_masking_stack)

\* C12: on the masked path op_store leaves, per lane, the new value on every
\* lane the top entry makes active and the previous value of the location on
\* every other lane, whether the top entry is negated or not.
C12_MaskedStore ==
    [][ (Done("op_store") /\ MaskedPath) =>
          \A l \in Lanes :
             (l \in memory') <=>
                IF l \in Active(Back(m_mask_stack))
                THEN l \in op'.mask
                ELSE l \in memory
    ]_vars

\* a masked store under a negated entry that wrote its value on the active
\* lanes and kept a different previous value on the others
C12_Witness ==
    /\ op.name = "op_store" /\ ~aborted /\ op.is_vector
    /\ m_mask_stack # << >>
    /\ m_enable_masking_stack # << >> /\ Back(m_enable_masking_stack)
    /\ Back(m_mask_stack).negate
    /\ Back(m_mask_stack).mask \notin {{}, Lanes}
    /\ op.mask = Lanes
    /\ memory = Active(Back(m_mask_stack))

\* C13: op_store overwrites every lane when the mask stack is empty, or the
\* value is not a vector, or the flag stack is empty, or its top flag is
\* false; only otherwise is the previous value kept on any lane.
C13_StorePolicy ==
    [][ Done("op_store") =>
          IF \/ m_mask_stack = << >>
             \/ ~op'.is_vector
             \/ m_enable_masking_stack = << >>
             \/ ~Back(m_enable_masking_stack)
          THEN memory' = op'.mask
          ELSE memory' = (op'.mask \cap Active(Back(m_mask_stack)))
                            \cup (memory \ Active(Back(m_mask_stack)))
    ]_vars

\* a wide store under an entry with an inactive lane and no flag pushed:
\* every lane was overwritten
C13_Witness ==
    /\ op.name = "op_store" /\ ~aborted /\ op.is_vector
    /\ m_mask_stack # << >>
    /\ Active(Back(m_mask_stack)) \notin {{}, Lanes}
    /\ m_enable_masking_stack = << >>
    /\ op.mask = Lanes
    /\ memory = Lanes

\* the calls that write a persistent slot
SlotWriters ==
    FunctionPushes \cup { "op_masked_return", "op_masked_break",
                          "op_masked_continue", "op_masked_exit",
                          "apply_exit_to_mask_stack" }

\* C14: push_function_mask, op_masked_return, op_masked_break,
\* op_masked_continue, op_masked_exit and apply_exit_to_mask_stack write their
\* slot unconditionally, whatever the mask stack and the masking-enabled flag
\* are: the slot holds the computed blend on every lane; and each leaves the
\* flag stack as it found it.
C14_UnconditionalSlotWrites ==
    [][ (~aborted' /\ op'.name \in SlotWriters) =>
          LET p == Active(Back(m_mask_stack))
              slot == Back(m_alloca_for_modified_mask_stack)
              slot_after == Back(m_alloca_for_modified_mask_stack')
              loop == Back(m_masked_loop_stack)
              loop_after == Back(m_masked_loop_stack')
          IN  /\ m_enable_masking_stack' = m_enable_masking_stack
              /\ op'.name \in FunctionPushes => slot_after = op'.mask
              /\ op'.name = "op_masked_return" => slot_after = slot \ p
              /\ op'.name = "op_masked_break" =>
                    loop_after.condition_mask = loop.condition_mask \ p
              /\ op'.name = "op_masked_continue" =>
                    loop_after.continue_mask = loop.continue_mask \cup p
              /\ op'.name = "op_masked_exit" =>
                    /\ m_alloca_for_modified_mask_stack'[1] =
                           m_alloca_for_modified_mask_stack[1] \ p
                    /\ slot_after = slot \ p
              /\ op'.name = "apply_exit_to_mask_stack" =>
                    slot_after = slot \cap m_alloca_for_modified_mask_stack[1]
    ]_vars

\* with masking enabled, an apply_exit_to_mask_stack that left the inner
\* function mask equal to a shader mask with a lane exited and a lane left
C14_Witness ==
    /\ op.name = "apply_exit_to_mask_stack" /\ ~aborted
    /\ m_enable_masking_stack # << >> /\ Back(m_enable_masking_stack)
    /\ Len(m_alloca_for_modified_mask_stack) = 2
    /\ Back(m_alloca_for_modified_mask_stack) =
           m_alloca_for_modified_mask_stack[1]
    /\ m_alloca_for_modified_mask_stack[1] \notin {{}, Lanes}

\* C15: push_function_mask(S) adds one function mask context whose slot
\* holds S on every lane, even inside a conditional region with masking
\* enabled, and whose return count is 0, and pushes one absolute mask entry:
\* right after it current_mask() = S, masked_return_count() = 0 and the new
\* top entry's applied count is 0; the contexts and entries below are as
\* they were.
C15_EnterFunctionScope ==
    [][ (~aborted' /\ op'.name \in FunctionPushes) =>
          LET n == Len(m_alloca_for_modified_mask_stack)
              S == op'.mask
          IN  /\ m_alloca_for_modified_mask_stack' =
                     Append(m_alloca_for_modified_mask_stack, S)
              /\ m_masked_return_count_stack' =
                     Append(m_masked_return_count_stack, 0)
              /\ MaskedReturnCount' = 0
              /\ Len(m_mask_stack') = Len(m_mask_stack) + 1
              /\ pop_back(m_mask_stack') = m_mask_stack
              /\ current_mask' = S
              /\ ~Back(m_mask_stack').negate
              /\ Back(m_mask_stack').applied_return_mask_count = 0
              /\ UNCHANGED << m_enable_masking_stack, m_masked_exit_count,
                              m_masked_loop_stack >>
    ]_vars

\* a function scope entered with every lane, with masking enabled, on top of
\* an entry with an inactive lane and an exit applied
C15_Witness ==
    /\ op.name = "push_function_mask" /\ ~aborted
    /\ m_enable_masking_stack # << >> /\ Back(m_enable_masking_stack)
    /\ Len(m_mask_stack) >= 2
    /\ Active(m_mask_stack[Len(m_mask_stack) - 1]) \notin {{}, Lanes}
    /\ m_mask_stack[Len(m_mask_stack) - 1].applied_return_mask_count > 0
    /\ op.mask = Lanes
    /\ Back(m_alloca_for_modified_mask_stack) = Lanes
    /\ current_mask = Lanes
    /\ MaskedReturnCount = 0

\* C16: masked returns in a nested function scope leave the caller alone:
\* after push_function_mask, a properly nested body with masked returns and
\* no masked exit, and pop_function_mask, the mask stack, the function mask
\* slots and the return counts are what they were before the push, and the
\* pop removes one mask entry, one slot and one count.
C16_CallerUnaffected ==
    [][ Done("pop_function_mask") =>
          /\ m_mask_stack' = Back(calls).masks
          /\ m_alloca_for_modified_mask_stack' = Back(calls).slots
          /\ m_masked_return_count_stack' = Back(calls).counts
          /\ Len(m_mask_stack') = Len(m_mask_stack) - 1
          /\ Len(m_alloca_for_modified_mask_stack') =
                 Len(m_alloca_for_modified_mask_stack) - 1
          /\ Len(m_masked_return_count_stack') =
                 Len(m_masked_return_count_stack) - 1
    ]_vars

\* back in a caller with lanes active and no return of its own, after a
\* nested function scope in which a masked return was issued
C16_Witness ==
    /\ op.name = "pop_function_mask" /\ ~aborted
    /\ calls # << >>
    /\ Back(calls).nested > 0
    /\ Back(calls).count = 0
    /\ MaskedReturnCount = 0
    /\ Back(m_alloca_for_modified_mask_stack) = Back(calls).start
    /\ Back(calls).start # {}

\* the index of the mask entry that opened the innermost function scope
RECURSIVE InnermostFunction(_)
InnermostFunction(pushed) ==
    IF pushed = << >> THEN 0
    ELSE IF Back(pushed) \in FunctionPushes THEN Len(pushed)
    ELSE InnermostFunction(Front(pushed))

\* C17: under properly nested calls the applied count of every mask entry of
\* the innermost function scope is at most that scope's return count, and no
\* step lowers the applied count of an entry that stays on the stack.
C17_AppliedCountBounded ==
    /\ [](\A i \in 1..Len(m_mask_stack) :
             (InnermostFunction(scopes) # 0 /\ i >= InnermostFunction(scopes)) =>
                m_mask_stack[i].applied_return_mask_count
                    <= Back(m_masked_return_count_stack))
    /\ [][ \A i \in 1..Len(m_mask_stack) :
             i <= Len(m_mask_stack') =>
                m_mask_stack'[i].applied_return_mask_count
                    >= m_mask_stack[i].applied_return_mask_count
       ]_vars

\* inside a function scope a conditional region whose applied count has
\* caught up with a return count above 0, over a parent whose applied count
\* is still 0
C17_Witness ==
    /\ ~aborted
    /\ Len(m_mask_stack) >= 2
    /\ Back(scopes) = "push_mask"
    /\ Back(m_mask_stack).applied_return_mask_count > 0
    /\ Back(m_mask_stack).applied_return_mask_count
          = Back(m_masked_return_count_stack)
    /\ m_mask_stack[Len(m_mask_stack) - 1].applied_return_mask_count = 0

\* C18: the stack of function mask slots and the stack of return counts are
\* always equally deep, as deep as the number of shader and function scopes
\* open; the first slot is the shader's: op_masked_exit clears its lanes
\* from shader_mask(), the front slot, however many function scopes are
\* nested above it, and nothing else done in a nested scope writes it.
C18_FunctionContexts ==
    /\ [](/\ Len(m_alloca_for_modified_mask_stack)
               = Len(m_masked_return_count_stack)
          /\ Len(m_alloca_for_modified_mask_stack) = open.functions)
    /\ [][ /\ Done("op_masked_exit") =>
                 shader_mask' = shader_mask \ Active(Back(m_mask_stack))
           /\ (/\ Len(m_alloca_for_modified_mask_stack) >= 2
               /\ Len(m_alloca_for_modified_mask_stack') >= 2
               /\ ~Done("op_masked_exit")) =>
                 shader_mask' = shader_mask
       ]_vars

\* a masked exit three function scopes deep that took a lane of the shader
\* mask and left a lane
C18_Witness ==
    /\ op.name = "op_masked_exit" /\ ~aborted
    /\ open.functions >= 3
    /\ Len(m_alloca_for_modified_mask_stack) >= 3
    /\ shader_mask = Lanes \ Active(Back(m_mask_stack))
    /\ shader_mask \notin {{}, Lanes}
    /\ m_alloca_for_modified_mask_stack[2] = Lanes

\* C19: under properly nested calls the mask stack is as deep as the number
\* of conditional regions plus the number of function scopes open, so it is
\* non-empty inside any of them and empty once all are left; a push adds
\* one entry on top and a pop removes the top entry, which is the one the
\* matching push added.
C19_MaskStackDepth ==
    /\ [](/\ Len(m_mask_stack) = open.regions + open.functions
          /\ open.regions >= 0 /\ open.functions >= 0)
    /\ [][ /\ (~aborted' /\ op'.name \in FunctionPushes \cup {"push_mask"}) =>
                 /\ Len(m_mask_stack') = Len(m_mask_stack) + 1
                 /\ \A i \in 1..Len(m_mask_stack) :
                        m_mask_stack'[i] = m_mask_stack[i]
           /\ (~aborted' /\ op'.name \in FunctionPops \cup {"pop_mask"}) =>
                 /\ Len(m_mask_stack') = Len(m_mask_stack) - 1
                 /\ \A i \in 1..Len(m_mask_stack') :
                        m_mask_stack'[i] = m_mask_stack[i]
                 /\ Back(scopes) = IF op'.name = "pop_mask" THEN "push_mask"
                                   ELSE IF op'.name = "pop_function_mask"
                                   THEN "push_function_mask"
                                   ELSE "push_shader_instance"
       ]_vars

\* back in a conditional region of the shader instance after the region
\* nested in it was popped: two entries for one region and one function scope
C19_Witness ==
    /\ op.name = "pop_mask" /\ ~aborted
    /\ Len(m_mask_stack) = 2
    /\ open = [regions |-> 1, functions |-> 1]
    /\ scopes = << "push_shader_instance", "push_mask" >>

\* C20: pop_mask and current_mask() on an empty mask stack, and
\* pop_function_mask on an empty mask stack or with no function mask context,
\* fail their ASSERT, which is fatal; no pop completes on an empty stack.
C20_FatalPops ==
    [][ /\ (op'.name \in {"pop_mask", "current_mask"} /\ m_mask_stack = << >>) =>
              /\ aborted'
              /\ UNCHANGED << m_mask_stack, m_alloca_for_modified_mask_stack,
                              m_masked_return_count_stack >>
        /\ (op'.name = "pop_function_mask"
               /\ (m_mask_stack = << >>
                     \/ m_alloca_for_modified_mask_stack = << >>)) =>
              /\ aborted'
              /\ UNCHANGED << m_alloca_for_modified_mask_stack,
                              m_masked_return_count_stack >>
        /\ Done("pop_mask") => m_mask_stack # << >>
        /\ Done("pop_function_mask") =>
              /\ m_mask_stack # << >>
              /\ m_alloca_for_modified_mask_stack # << >>
              /\ m_masked_return_count_stack # << >>
    ]_vars

\* pop_function_mask with mask entries left and no function mask context:
\* the process is gone
C20_Witness ==
    /\ op.name = "pop_function_mask" /\ aborted
    /\ m_alloca_for_modified_mask_stack = << >>
    /\ m_mask_stack # << >>

\* C21: pop_masked_loop with no loop context open is a fatal error, detected
\* as pop_mask and pop_function_mask detect theirs.
C21_AsStated ==
    [][ (op'.name = "pop_masked_loop" /\ m_masked_loop_stack = << >>) =>
            aborted'
    ]_vars

\* C22: op_masked_break and op_masked_continue with no loop context,
\* op_masked_return and op_masked_exit with no function mask context, and any
\* of the four with an empty mask stack, fail an ASSERT before any store and
\* any count: the process dies with every stack, slot and counter as it was.
C22_SignalPreconditions ==
    [][ /\ (/\ op'.name \in {"op_masked_break", "op_masked_continue"}
            /\ (m_mask_stack = << >> \/ m_masked_loop_stack = << >>))
           => (aborted' /\ RestUnchanged /\ UNCHANGED << m_mask_stack, memory >>)
        /\ (/\ op'.name \in {"op_masked_return", "op_masked_exit"}
            /\ (m_mask_stack = << >>
                  \/ m_alloca_for_modified_mask_stack = << >>))
           => (aborted' /\ RestUnchanged /\ UNCHANGED << m_mask_stack, memory >>)
        /\ (/\ op'.name \in {"op_masked_break", "op_masked_continue",
                              "op_masked_return", "op_masked_exit"}
            /\ aborted')
           => (RestUnchanged /\ UNCHANGED << m_mask_stack, memory >>)
    ]_vars

\* a masked break under a mask entry and outside every loop
C22_Witness ==
    /\ aborted /\ op.name = "op_masked_break"
    /\ m_mask_stack # << >>
    /\ m_masked_loop_stack = << >>

\* C23: masked_break_count() and masked_continue_count() are the numbers of
\* masked breaks and continues issued in the innermost open loop since it was
\* pushed (0 with no loop open), and every outer loop keeps its own numbers
\* while an inner loop is open.
C23_LoopCounts ==
    /\ Len(issued) = Len(m_masked_loop_stack)
    /\ MaskedBreakCount = IF issued = << >> THEN 0 ELSE Back(issued).breaks
    /\ MaskedContinueCount =
           IF issued = << >> THEN 0 ELSE Back(issued).continues
    /\ \A i \in 1..Len(issued) :
           /\ m_masked_loop_stack[i].break_count = issued[i].breaks
           /\ m_masked_loop_stack[i].continue_count = issued[i].continues
    /\ (op.name = "push_masked_loop" /\ ~aborted) =>
           (MaskedBreakCount = 0 /\ MaskedContinueCount = 0)

\* an inner loop pushed inside a loop that has counted a break
C23_Witness ==
    /\ op.name = "push_masked_loop" /\ ~aborted
    /\ Len(m_masked_loop_stack) = 2
    /\ m_masked_loop_stack[1].break_count = 1
    /\ MaskedBreakCount = 0

\* C24: masked_exit_count() goes up by exactly one at every op_masked_exit,
\* goes to 0 at pop_shader_instance, and is left alone by every other call:
\* pop_function_mask, pop_mask, masked return, break and continue among them.
C24_ExitCount ==
    [][ /\ Done("op_masked_exit") =>
              MaskedExitCount' = MaskedExitCount + 1
        /\ op'.name = "pop_shader_instance" => MaskedExitCount' = 0
        /\ op'.name \notin {"op_masked_exit", "pop_shader_instance"} =>
              MaskedExitCount' = MaskedExitCount
        /\ (op'.name = "op_masked_exit" /\ aborted') =>
              MaskedExitCount' = MaskedExitCount
    ]_vars

\* back in the shader scope after the pop of a function scope in which an
\* exit was issued: the shader scope has counted no return of its own and the
\* exit is still pending
C24_Witness ==
    /\ op.name = "pop_function_mask" /\ ~aborted
    /\ Len(m_alloca_for_modified_mask_stack) = 1
    /\ m_masked_return_count_stack = << 0 >>
    /\ MaskedExitCount = 1

\* C25 as the specification states it: a pop_function_mask made while
\* masked_exit_count() > 0 folds the pending exit, so that the slot it
\* discards, and the slot of the function it returns to, are active on no
\* lane already cleared from the shader slot.
C25_AsStated ==
    [][ (Done("pop_function_mask") /\ MaskedExitCount > 0) =>
            /\ Back(m_alloca_for_modified_mask_stack) \subseteq shader_mask
            /\ m_alloca_for_modified_mask_stack' # << >> =>
                   Back(m_alloca_for_modified_mask_stack') \subseteq shader_mask'
    ]_vars

\* C25: pop_function_mask discards the innermost function mask context as it
\* is and folds nothing, whatever masked_exit_count() is; the fold of a
\* pending exit is the call apply_exit_to_mask_stack, which narrows the slot
\* of the innermost open function to the lanes still in the shader slot and
\* narrows the top mask entry with it.
C25_ExitFoldIsSeparate ==
    [][ /\ Done("pop_function_mask") =>
              /\ m_alloca_for_modified_mask_stack' =
                     Front(m_alloca_for_modified_mask_stack)
              /\ m_masked_return_count_stack' =
                     Front(m_masked_return_count_stack)
              /\ m_mask_stack' = Front(m_mask_stack)
              /\ MaskedExitCount' = MaskedExitCount
        /\ Done("apply_exit_to_mask_stack") =>
              /\ Back(m_alloca_for_modified_mask_stack') =
                     Back(m_alloca_for_modified_mask_stack) \cap shader_mask
              /\ Back(m_alloca_for_modified_mask_stack') \subseteq shader_mask'
              /\ Front(m_alloca_for_modified_mask_stack') =
                     Front(m_alloca_for_modified_mask_stack)
              /\ current_mask' =
                     current_mask \cap Back(m_alloca_for_modified_mask_stack')
              /\ MaskedExitCount' = MaskedExitCount
    ]_vars

\* back in a function scope after the pop of a nested one, with an exit
\* pending: the function's slot still holds a lane cleared from the shader
\* slot
C25_Witness ==
    /\ op.name = "pop_function_mask" /\ ~aborted
    /\ MaskedExitCount > 0
    /\ Len(m_alloca_for_modified_mask_stack) = 2
    /\ m_masked_return_count_stack = << 0, 0 >>
    /\ ~(Back(m_alloca_for_modified_mask_stack) \subseteq shader_mask)

\* C26: for every integer bitmask b with 0 <= b < 2^W, lane i of
\* int_as_mask(b) is active exactly when bit i of b is set, on the native and
\* on the synthesized path, and mask_as_int(int_as_mask(b)) = b.
C26_RoundTrip ==
    /\ codec.step = "int_as_mask" =>
           /\ ~aborted /\ codec.well_formed
           /\ codec.mask =
                  { i \in LanesOf(codec.width) : Bit(codec.input, i) = 1 }
    /\ codec.step = "mask_as_int" =>
           /\ ~aborted /\ codec.well_formed
           /\ codec.value = codec.input

\* C27: op_1st_active_lane_of of a predicate with a lane active is the
\* index of its lowest active lane, at the width in use.
C27_FirstActiveLane ==
    (codec.step = "op_1st_active_lane_of" /\ codec.mask # {}) =>
        /\ ~aborted
        /\ codec.value \in codec.mask
        /\ \A i \in codec.mask : codec.value <= i

\* C28: at each of the widths 4, 8 and 16, test_if_mask_is_non_zero is true
\* exactly when a lane is active, and test_if_mask_has_any_on_or_off gives
\* any_on exactly when a lane is active and any_off exactly when a lane is
\* inactive.
C28_MaskTests ==
    /\ codec.step = "test_if_mask_is_non_zero" =>
           /\ ~aborted
           /\ codec.non_zero = (codec.mask # {})
    /\ codec.step = "test_if_mask_has_any_on_or_off" =>
           /\ ~aborted
           /\ codec.any_on = (codec.mask # {})
           /\ codec.any_off = (codec.mask # LanesOf(codec.width))

\* C29: apply_return_to_mask_stack, when the return count of the innermost
\* function is above the top entry's applied count, narrows the active lanes
\* of the top entry to those also in the function's slot (stored mask AND
\* slot for a non-negated entry, stored mask OR NOT slot for a negated one),
\* keeps negate, sets the applied count to the return count, and changes no
\* slot, no count and no other entry.
C29_ApplyReturn ==
    [][ (/\ Done("apply_return_to_mask_stack")
         /\ m_masked_return_count_stack # << >>
         /\ Back(m_masked_return_count_stack) >
               Back(m_mask_stack).applied_return_mask_count) =>
          LET mi == Back(m_mask_stack)
              slot == Back(m_alloca_for_modified_mask_stack)
              folded == Back(m_mask_stack')
          IN  /\ Active(folded) = Active(mi) \cap slot
              /\ folded.mask = IF mi.negate
                               THEN mi.mask \cup (Lanes \ slot)
                               ELSE mi.mask \cap slot
              /\ folded.negate = mi.negate
              /\ folded.applied_return_mask_count =
                     Back(m_masked_return_count_stack)
              /\ Front(m_mask_stack') = Front(m_mask_stack)
              /\ RestUnchanged /\ UNCHANGED memory
    ]_vars

\* a negated entry that was active on a lane, folded with a slot that lacks
\* a lane
C29_Witness ==
    /\ op.name = "apply_return_to_mask_stack" /\ ~aborted
    /\ m_mask_stack # << >> /\ m_masked_return_count_stack # << >>
    /\ Back(m_mask_stack).negate
    /\ Back(m_mask_stack).applied_return_mask_count = 1
    /\ Back(m_masked_return_count_stack) = 1
    /\ Back(m_alloca_for_modified_mask_stack) # Lanes
    /\ Back(m_mask_stack).mask = Lanes

\* C30: a second apply_return_to_mask_stack right after the first leaves the
\* mask stack as it is, as does any apply_return_to_mask_stack made while the
\* top entry's applied count equals the return count; a second
\* apply_break_to_mask_stack or apply_continue_to_mask_stack right after the
\* first leaves the active lanes of the top entry, and every other entry,
\* as the first left them.
C30_FoldIdempotent ==
    [][ /\ (Done("apply_return_to_mask_stack")
              /\ (\/ op.name = "apply_return_to_mask_stack"
                  \/ Back(m_masked_return_count_stack) =
                        Back(m_mask_stack).applied_return_mask_count)) =>
              m_mask_stack' = m_mask_stack
        /\ (\/ Done("apply_break_to_mask_stack")
                  /\ op.name = "apply_break_to_mask_stack"
            \/ Done("apply_continue_to_mask_stack")
                  /\ op.name = "apply_continue_to_mask_stack") =>
              /\ current_mask' = current_mask
              /\ Front(m_mask_stack') = Front(m_mask_stack)
    ]_vars

\* a second apply_return_to_mask_stack in a row, on an entry the first has
\* narrowed
C30_Witness ==
    /\ op.name = "apply_return_to_mask_stack" /\ ~aborted
    /\ previous = "apply_return_to_mask_stack"
    /\ Back(m_mask_stack).applied_return_mask_count = 1
    /\ Back(m_masked_return_count_stack) = 1
    /\ Len(m_mask_stack) = 2
    /\ current_mask = {}

\* C31: apply_break_to_mask_stack leaves the top entry active on its old
\* active lanes that are in the condition mask of the innermost loop, and
\* apply_continue_to_mask_stack on its old active lanes that are not in the
\* continue mask, for negated and non-negated entries alike and whatever
\* the break and continue counts are; both keep negate and the applied
\* count and change no slot, no count and no other entry.
C31_ApplyBreakContinue ==
    [][ /\ Done("apply_break_to_mask_stack") =>
              /\ current_mask' =
                     current_mask \cap Back(m_masked_loop_stack).condition_mask
              /\ Back(m_mask_stack').negate = Back(m_mask_stack).negate
              /\ Back(m_mask_stack').applied_return_mask_count =
                     Back(m_mask_stack).applied_return_mask_count
              /\ Front(m_mask_stack') = Front(m_mask_stack)
              /\ RestUnchanged /\ UNCHANGED memory
        /\ Done("apply_continue_to_mask_stack") =>
              /\ current_mask' =
                     current_mask \ Back(m_masked_loop_stack).continue_mask
              /\ Back(m_mask_stack').negate = Back(m_mask_stack).negate
              /\ Back(m_mask_stack').applied_return_mask_count =
                     Back(m_mask_stack).applied_return_mask_count
              /\ Front(m_mask_stack') = Front(m_mask_stack)
              /\ RestUnchanged /\ UNCHANGED memory
    ]_vars

\* a negated entry narrowed by apply_continue_to_mask_stack in a loop that
\* has counted no continue and whose continue mask holds a lane
C31_Witness ==
    /\ op.name = "apply_continue_to_mask_stack" /\ ~aborted
    /\ Back(m_mask_stack).negate
    /\ Back(m_masked_loop_stack).continue_count = 0
    /\ Back(m_masked_loop_stack).continue_mask # {}
    /\ current_mask # {}
    /\ current_mask \cap Back(m_masked_loop_stack).continue_mask = {}

\* C32: apply_exit_to_mask_stack sets the slot of the innermost function to
\* its old lanes that are in the shader slot, raises the return count of that
\* function by one, narrows the active lanes of the top entry to those in
\* the new slot and sets its applied count to the new return count; in
\* properly nested calls its ASSERT that the return count is above the
\* applied count never fails.
C32_ApplyExit ==
    [][ op'.name = "apply_exit_to_mask_stack" =>
          LET mi == Back(m_mask_stack)
              folded == Back(m_mask_stack')
              slot == Back(m_alloca_for_modified_mask_stack')
          IN  /\ ~aborted'
              /\ slot = Back(m_alloca_for_modified_mask_stack) \cap shader_mask
              /\ Front(m_alloca_for_modified_mask_stack') =
                     Front(m_alloca_for_modified_mask_stack)
              /\ Back(m_masked_return_count_stack') =
                     Back(m_masked_return_count_stack) + 1
              /\ Front(m_masked_return_count_stack') =
                     Front(m_masked_return_count_stack)
              /\ Active(folded) = Active(mi) \cap slot
              /\ folded.negate = mi.negate
              /\ folded.applied_return_mask_count =
                     Back(m_masked_return_count_stack')
              /\ Front(m_mask_stack') = Front(m_mask_stack)
              /\ UNCHANGED << m_masked_loop_stack, m_masked_exit_count,
                              m_enable_masking_stack, memory >>
    ]_vars

\* the fold of an exit issued in a nested function scope, in a conditional
\* region of the calling function: the function's slot and the entry have
\* lost the lane that left, and the entry has the new return count
C32_Witness ==
    /\ op.name = "apply_exit_to_mask_stack" /\ ~aborted
    /\ Len(m_alloca_for_modified_mask_stack) = 2
    /\ Len(m_mask_stack) = 3
    /\ m_masked_exit_count = 1
    /\ shader_mask = {l \in Lanes : l % 2 = 0}
    /\ Back(m_alloca_for_modified_mask_stack) = shader_mask
    /\ m_masked_return_count_stack = << 0, 1 >>
    /\ Back(m_mask_stack) = MaskInfo(shader_mask, FALSE, 1)

\* C33: op_masked_exit with only the outermost function mask context open
\* stores the shader mask once, as its old lanes without the lanes the exit
\* was issued under, and raises the masked exit count and the return count
\* of that context by one each.
C33_ExitAtShaderScope ==
    [][ /\ op'.name = "op_masked_exit" /\ ~aborted'
        /\ Len(m_alloca_for_modified_mask_stack) = 1
        => /\ m_alloca_for_modified_mask_stack' =
                 << shader_mask \ Active(Back(m_mask_stack)) >>
           /\ m_masked_exit_count' = m_masked_exit_count + 1
           /\ Len(m_masked_return_count_stack) = 1
           /\ m_masked_return_count_stack' =
                 << m_masked_return_count_stack[1] + 1 >>
           /\ UNCHANGED << m_mask_stack, m_masked_loop_stack,
                           m_enable_masking_stack, memory >>
    ]_vars

\* a masked exit under a negated entry with only the outermost context open:
\* the shader mask is left with the lanes of the entry's stored mask
C33_Witness ==
    /\ op.name = "op_masked_exit" /\ ~aborted
    /\ Len(m_alloca_for_modified_mask_stack) = 1
    /\ Back(m_mask_stack).negate
    /\ Back(m_mask_stack).mask \notin { {}, Lanes }
    /\ shader_mask = Back(m_mask_stack).mask
    /\ m_masked_exit_count = 1
    /\ m_masked_return_count_stack = << 1 >>

\* C34: in properly nested calls of function scopes, relative conditional
\* regions, masked returns and apply_return_to_mask_stack, a top entry whose
\* applied count equals the return count of the innermost function has no
\* active lane outside that function's mask: the fold that is skipped for
\* equal counts would clear nothing.
C34_AppliedCountSound ==
    (/\ ~aborted
     /\ m_mask_stack # << >>
     /\ m_masked_return_count_stack # << >>
     /\ Back(m_mask_stack).applied_return_mask_count =
            Back(m_masked_return_count_stack))
    => Active(Back(m_mask_stack))
           \subseteq Back(m_alloca_for_modified_mask_stack)

\* a conditional region opened after the fold of a masked return: it takes
\* the applied count of its parent, equal to the return count, in a function
\* that has lost a lane
C34_Witness ==
    /\ op.name = "push_mask" /\ ~aborted
    /\ Len(m_alloca_for_modified_mask_stack) = 2
    /\ Back(calls).lanes # {}
    /\ Back(m_alloca_for_modified_mask_stack) = Back(calls).start \ Back(calls).lanes
    /\ Back(m_masked_return_count_stack) = 1
    /\ Back(m_mask_stack).applied_return_mask_count = 1
    /\ Active(Back(m_mask_stack)) # {}

\* C35: over the lifetime of a function scope its mask only loses lanes: every
\* step leaves each open function mask within what it was, so that it stays
\* within the start mask of its scope; op_masked_break only clears lanes of
\* the loop's condition mask and op_masked_continue only sets lanes of its
\* continue mask.
C35_SlotsMonotone ==
    /\ [](\A i \in 1..Len(m_alloca_for_modified_mask_stack) :
            i <= Len(calls) =>
                m_alloca_for_modified_mask_stack[i] \subseteq calls[i].start)
    /\ [][ /\ \A i \in 1..Len(m_alloca_for_modified_mask_stack) :
                i <= Len(m_alloca_for_modified_mask_stack') =>
                    m_alloca_for_modified_mask_stack'[i]
                        \subseteq m_alloca_for_modified_mask_stack[i]
           /\ (op'.name = "op_masked_break" /\ ~aborted') =>
                /\ Back(m_masked_loop_stack').condition_mask
                       \subseteq Back(m_masked_loop_stack).condition_mask
                /\ Back(m_masked_loop_stack').continue_mask =
                       Back(m_masked_loop_stack).continue_mask
           /\ (op'.name = "op_masked_continue" /\ ~aborted') =>
                /\ Back(m_masked_loop_stack).continue_mask
                       \subseteq Back(m_masked_loop_stack').continue_mask
                /\ Back(m_masked_loop_stack').condition_mask =
                       Back(m_masked_loop_stack).condition_mask
      ]_vars

\* a masked break in a loop of a function scope in which a masked exit was
\* issued before: the shader mask, the function mask and the condition mask
\* of the loop have each lost a lane they started with
C35_Witness ==
    /\ op.name = "op_masked_break" /\ ~aborted
    /\ Len(m_alloca_for_modified_mask_stack) = 2 /\ Len(calls) = 2
    /\ calls[1].start = Lanes /\ calls[2].start = Lanes
    /\ shader_mask \notin { {}, Lanes }
    /\ Back(m_alloca_for_modified_mask_stack) = shader_mask
    /\ Back(m_masked_loop_stack).break_count = 1
    /\ Back(m_masked_loop_stack).condition_mask \notin { {}, Lanes }

\* C36: once the pop_shader_instance that matches the push_shader_instance
\* has been called, whatever conditional regions, function scopes, loops and
\* masked returns, breaks, continues and exits came in between, the masked
\* exit count is 0 and the function mask stack and the mask stack are empty,
\* so that the ASSERTs of the next new_builder hold.
C36_InstanceLeavesNothing ==
    /\ (op.name = "pop_shader_instance" /\ ~aborted) => new_builder_asserts
    /\ op.name = "new_builder" => ~aborted

\* the shader instance is popped right after a masked exit issued in its
\* outermost scope, and the state passes the ASSERTs of new_builder
C36_Witness ==
    /\ op.name = "pop_shader_instance" /\ ~aborted
    /\ previous = "op_masked_exit"
    /\ new_builder_asserts

\* C37: with no loop open masked_break_count() and masked_continue_count()
\* return 0 and is_innermost_loop_masked() returns false, with no function
\* mask context open masked_return_count() is fatal, and none of the four
\* changes a stack or a count.
C37_Queries ==
    [][ /\ (op'.name = "masked_break_count" /\ m_masked_loop_stack = << >>)
            => (~aborted' /\ op'.result = 0)
        /\ (op'.name = "masked_continue_count" /\ m_masked_loop_stack = << >>)
            => (~aborted' /\ op'.result = 0)
        /\ (op'.name = "is_innermost_loop_masked"
                /\ m_masked_loop_stack = << >>)
            => (~aborted' /\ op'.result = 0)
        /\ (op'.name = "masked_return_count"
                /\ m_masked_return_count_stack = << >>)
            => aborted'
        /\ op'.name \in { "masked_break_count", "masked_continue_count",
                          "is_innermost_loop_masked", "masked_return_count" }
            => UNCHANGED << m_mask_stack, m_alloca_for_modified_mask_stack,
                            m_masked_return_count_stack, m_masked_loop_stack,
                            m_masked_exit_count, m_enable_masking_stack,
                            memory >>
    ]_vars

\* masked_return_count() called after the function scope was popped: the
\* process has died on the ASSERT
C37_Witness ==
    /\ op.name = "masked_return_count" /\ aborted
    /\ m_masked_return_count_stack = << >>
    /\ m_masked_loop_stack = << >>

\* C38: push_masked_loop and pop_masked_loop of an open loop change the loop
\* stack only, by its last record: the mask stack, the function masks, the
\* return counts, the masked exit count, the masking flags and the masks of
\* the other loops are as before; push_function_mask pushes a mask entry and
\* push_masked_loop pushes none.
C38_LoopScopeFrame ==
    [][ /\ op'.name = "push_masked_loop" =>
            /\ ~aborted'
            /\ Len(m_masked_loop_stack') = Len(m_masked_loop_stack) + 1
            /\ Front(m_masked_loop_stack') = m_masked_loop_stack
            /\ UNCHANGED << m_mask_stack, m_alloca_for_modified_mask_stack,
                            m_masked_return_count_stack, m_masked_exit_count,
                            m_enable_masking_stack, memory >>
        /\ (op'.name = "pop_masked_loop" /\ m_masked_loop_stack # << >>) =>
            /\ ~aborted'
            /\ m_masked_loop_stack' = Front(m_masked_loop_stack)
            /\ UNCHANGED << m_mask_stack, m_alloca_for_modified_mask_stack,
                            m_masked_return_count_stack, m_masked_exit_count,
                            m_enable_masking_stack, memory >>
        /\ Done("push_function_mask") =>
            Len(m_mask_stack') = Len(m_mask_stack) + 1
    ]_vars

\* a second loop pushed inside a loop that has counted a break, under a mask
\* entry and inside a function mask context
C38_Witness ==
    /\ op.name = "push_masked_loop" /\ ~aborted
    /\ Len(m_masked_loop_stack) = 2
    /\ m_masked_loop_stack[1].break_count = 1
    /\ m_masked_loop_stack[1].condition_mask # Lanes
    /\ Len(m_mask_stack) = 1
    /\ Len(m_alloca_for_modified_mask_stack) = 1

\* C39: at every vector width the native path of int_as_mask (truncate,
\* bitcast) and the synthesized path (splat, AND with 1 << lane_index,
\* compare with 0) give the same wide bool for the same integer, and the
\* wide bool does not depend on the bits of the integer above the last lane.
C39_AsStated ==
    codec.step = "int_as_mask" =>
        LET by_bitcast == int_as_mask(codec.width, TRUE, codec.input)
            by_filter == int_as_mask(codec.width, FALSE, codec.input)
        IN  /\ ~aborted /\ codec.well_formed
            /\ by_bitcast.well_formed /\ by_filter.well_formed
            /\ by_bitcast.mask = by_filter.mask
            /\ codec.mask =
                  int_as_mask(codec.width, codec.native,
                              codec.input % 2^codec.width).mask

====
